---- MODULE Spec2Model ----
(***************************************************************************)
(* A model of the action handlers of the Autohive integrations: each       *)
(* action validates its inputs, issues fetch calls through the execution   *)
(* context, and reshapes the vendor response into a result envelope.       *)
(*                                                                         *)
(* Representation.  A JSON object (the input mapping, a vendor response, an *)
(* output envelope) is a function from its keys to values; a key the object *)
(* does not have is outside the DOMAIN.  A JSON array is a sequence.  One   *)
(* invocation is one step: the handlers are sequential and keep no state    *)
(* between invocations, so the state is what one invocation was given and   *)
(* what it did.                                                             *)
(***************************************************************************)
EXTENDS Integers, Sequences, FiniteSets, TLC

VARIABLES
    action,     \* registered name of the action invoked last ("none" at start)
    inputs,     \* the input mapping it was invoked with
    requests,   \* the fetch calls issued by the invocation, in order
    responses,  \* what the fetch primitive did for each of those calls
    outcome     \* how execute ended: returned an envelope, or raised

vars == <<action, inputs, requests, responses, outcome>>

(***************************************************************************)
(* Bounds of the model.                                                    *)
(***************************************************************************)
MaxItems == 2        \* longest item list in a vendor response
MaxErrTokens == 2    \* longest message of an error raised by fetch, in tokens
MaxRetryAttempt == 5 \* largest retry_attempt a caller supplies

(***************************************************************************)
(* JSON / Python helpers.                                                  *)
(***************************************************************************)
EmptyMap == <<>>

Has(obj, k) == k \in DOMAIN obj

\* dict.get(k, default)
Get(obj, k, default) == IF k \in DOMAIN obj THEN obj[k] ELSE default

\* every mapping that keeps some of the keys of obj, each with obj's value
Sub(obj) == {[k \in S |-> obj[k]] : S \in SUBSET DOMAIN obj}

\* the text of a message: a sequence of tokens, each a word or a number
Word(w) == [w |-> w]
Code(n) == [n |-> n]

\* `d[k] = v` and the union of two mappings with different keys
With(obj, k, v) == [x \in DOMAIN obj \cup {k} |-> IF x = k THEN v ELSE obj[x]]
Merge(a, b) == [k \in DOMAIN a \cup DOMAIN b |-> IF k \in DOMAIN a THEN a[k] ELSE b[k]]

Given_Blank(kwargs, inp, key, name, empty) ==
    IF Has(inp, key) /\ inp[key] # empty THEN With(kwargs, name, empty) ELSE kwargs

\* `if inputs.get(key): kwargs[name] = inputs[key]`, where empty is the falsy value
\* of the input's type
Given(kwargs, inp, key, name, empty) ==
    IF Has(inp, key) /\ inp[key] # empty THEN With(kwargs, name, inp[key]) ELSE kwargs

\* how an invocation ends
Returned(data) == [kind |-> "returned", data |-> data]
Raised(type, message) == [kind |-> "raised", exc |-> [type |-> type, message |-> message]]

\* the behaviours of the fetch primitive
Body(obj) == [kind |-> "object", obj |-> obj]
Array(items) == [kind |-> "array", items |-> items]
Raise(err) == [kind |-> "raise", err |-> err]

IsDict(response) == response.kind = "object"

ItemList(n) == [i \in 1..n |-> [_id |-> i]]
ItemLists == {ItemList(n) : n \in 0..MaxItems}

(***************************************************************************)
(* Humanitix                                                               *)
(***************************************************************************)
HUMANITIX_API_BASE == "https://api.humanitix.com/v1"

\* str truthiness of an optional input: `if value:`
Truthy(inp, k) == Has(inp, k) /\ inp[k] # ""

PageSizeOr100_GetDefault(inp) == Get(inp, "page_size", 100)

\* `page_size or 100`
PageSizeOr100(inp) ==
    IF Has(inp, "page_size") /\ inp["page_size"] # 0 THEN inp["page_size"] ELSE 100

\* `"&".join(f"{k}={v}" ...)` over the params dict, in insertion order
Param(k, v) == <<[k |-> k, v |-> v]>>
ParamIf(cond, k, inp, ik) == IF cond THEN Param(k, inp[ik]) ELSE <<>>

Request(method, path, query) == [method |-> method, path |-> path, query |-> query]

\* the inline error check of the handlers
IsErrorBody(response) == IsDict(response) /\ Has(response.obj, "statusCode")

ErrorEnvelope(response) ==
    [result |-> FALSE,
     statusCode |-> response.obj["statusCode"],
     error |-> Get(response.obj, "error", ""),
     message |-> Get(response.obj, "message", "")]

\* helpers.build_error_result: imported by orders.py, tickets.py and tags.py
build_error_result(response) ==
    IF IsErrorBody(response)
    THEN [some |-> TRUE, result |-> ErrorEnvelope(response)]
    ELSE [some |-> FALSE]

\* a list envelope that keeps a running total across invocations
ListEnvelope_Counting(key, inp, response) ==
    LET items == IF IsDict(response) THEN Get(response.obj, key, <<>>) ELSE <<>>
        page == Get(inp, "page", 1)
        seen == IF outcome.kind = "returned" /\ Has(outcome.data, "total")
                THEN outcome.data["total"] ELSE 0
    IN  [k \in {"result", key, "total", "page", "pageSize"} |->
            CASE k = "result" -> TRUE
              [] k = key -> items
              [] k = "total" -> seen + Len(items)
              [] k = "page" -> IF IsDict(response)
                               THEN Get(response.obj, "page", page) ELSE page
              [] k = "pageSize" -> IF IsDict(response)
                                   THEN Get(response.obj, "pageSize", PageSizeOr100(inp))
                                   ELSE PageSizeOr100(inp)]

\* the list envelope built at the end of every list branch
ListEnvelope(key, inp, response) ==
    LET items == IF IsDict(response) THEN Get(response.obj, key, <<>>) ELSE <<>>
        page == Get(inp, "page", 1)
    IN  [k \in {"result", key, "total", "page", "pageSize"} |->
            CASE k = "result" -> TRUE
              [] k = key -> items
              [] k = "total" -> IF IsDict(response)
                                THEN Get(response.obj, "total", Len(items))
                                ELSE Len(items)
              [] k = "page" -> IF IsDict(response)
                               THEN Get(response.obj, "page", page) ELSE page
              [] k = "pageSize" -> IF IsDict(response)
                                   THEN Get(response.obj, "pageSize", PageSizeOr100(inp))
                                   ELSE PageSizeOr100(inp)]

\* a handler's result: the requests it issued and how it ended
Done(reqs, out) == [requests |-> reqs, outcome |-> out]

\* `except Exception as e` of the Excel, BigQuery and Bitly actions: the failure
\* envelope with str(e) and the fields the action adds to it
CaughtWith(r, fields) ==
    IF r.outcome.kind = "raised"
    THEN Done(r.requests,
              Returned(Merge([result |-> FALSE, error |-> r.outcome.exc.message], fields)))
    ELSE r

Fetched_Retrying(req, fetch, out) ==
    IF fetch.kind = "raise"
    THEN Done(<<req, req>>, Raised("Exception", fetch.err))
    ELSE Done(<<req>>, out)

\* `await context.fetch(...)` without a try block: a raise leaves execute
Fetched(req, fetch, out) ==
    IF fetch.kind = "raise"
    THEN Done(<<req>>, Raised("Exception", fetch.err))
    ELSE Done(<<req>>, out)

GetEventsAction(inp, fetch) ==
    LET params == ParamIf(Truthy(inp, "override_location"),
                          "overrideLocation", inp, "override_location")
    IN  IF Truthy(inp, "event_id")
        THEN Fetched(Request("GET", <<"events", inp["event_id"]>>, params), fetch,
                 IF IsErrorBody(fetch)
                 THEN Returned(ErrorEnvelope(fetch))
                 ELSE Returned([result |-> TRUE, event |-> fetch]))
        ELSE LET q == params \o Param("page", Get(inp, "page", 1))
                      \o ParamIf(Has(inp, "page_size"), "pageSize", inp, "page_size")
                      \o ParamIf(Truthy(inp, "since"), "since", inp, "since")
             IN  Fetched(Request("GET", <<"events">>, q), fetch,
                     IF IsErrorBody(fetch)
                     THEN Returned(ErrorEnvelope(fetch))
                     ELSE Returned(ListEnvelope("events", inp, fetch)))


GetOrdersAction(inp, fetch) ==
    IF ~Has(inp, "event_id") THEN Done(<<>>, Raised("KeyError", <<Word("'event_id'")>>))
    ELSE
    LET params == ParamIf(Truthy(inp, "override_location"),
                          "overrideLocation", inp, "override_location")
                  \o ParamIf(Truthy(inp, "event_date_id"),
                             "eventDateId", inp, "event_date_id")
        error == build_error_result(fetch)
    IN  IF Truthy(inp, "order_id")
        THEN Fetched(Request("GET", <<"events", inp["event_id"], "orders", inp["order_id"]>>,
                             params), fetch,
                 IF error.some THEN Returned(error.result)
                 ELSE Returned([result |-> TRUE, order |-> fetch]))
        ELSE LET q == params \o Param("page", Get(inp, "page", 1))
                      \o ParamIf(Has(inp, "page_size"), "pageSize", inp, "page_size")
                      \o ParamIf(Truthy(inp, "since"), "since", inp, "since")
             IN  Fetched(Request("GET", <<"events", inp["event_id"], "orders">>, q), fetch,
                     IF error.some THEN Returned(error.result)
                     ELSE Returned(ListEnvelope("orders", inp, fetch)))

GetTicketsAction(inp, fetch) ==
    IF ~Has(inp, "event_id") THEN Done(<<>>, Raised("KeyError", <<Word("'event_id'")>>))
    ELSE
    LET params == ParamIf(Truthy(inp, "override_location"),
                          "overrideLocation", inp, "override_location")
        error == build_error_result(fetch)
    IN  IF Truthy(inp, "ticket_id")
        THEN Fetched(Request("GET", <<"events", inp["event_id"], "tickets", inp["ticket_id"]>>,
                             params), fetch,
                 IF error.some THEN Returned(error.result)
                 ELSE Returned([result |-> TRUE, ticket |-> fetch]))
        ELSE LET q == params \o Param("page", Get(inp, "page", 1))
                      \o ParamIf(Truthy(inp, "event_date_id"),
                                 "eventDateId", inp, "event_date_id")
                      \o ParamIf(Has(inp, "page_size"), "pageSize", inp, "page_size")
                      \o ParamIf(Truthy(inp, "since"), "since", inp, "since")
                      \o ParamIf(Truthy(inp, "status"), "status", inp, "status")
             IN  Fetched(Request("GET", <<"events", inp["event_id"], "tickets">>, q), fetch,
                     Returned(ListEnvelope("tickets", inp, fetch)))

GetTagsAction(inp, fetch) ==
    LET error == build_error_result(fetch)
    IN  IF Truthy(inp, "tag_id")
        THEN Fetched(Request("GET", <<"tags", inp["tag_id"]>>, <<>>), fetch,
                 IF error.some THEN Returned(error.result)
                 ELSE Returned([result |-> TRUE, tag |-> fetch]))
        ELSE LET q == Param("page", Get(inp, "page", 1))
                      \o ParamIf(Has(inp, "page_size"), "pageSize", inp, "page_size")
             IN  Fetched(Request("GET", <<"tags">>, q), fetch,
                     Returned(ListEnvelope("tags", inp, fetch)))

\* the body shared by CheckInAction.execute and CheckOutAction.execute
ScanAction(endpoint, inp, fetch) ==
    IF ~Has(inp, "event_id") THEN Done(<<>>, Raised("KeyError", <<Word("'event_id'")>>))
    ELSE IF ~Has(inp, "ticket_id") THEN Done(<<>>, Raised("KeyError", <<Word("'ticket_id'")>>))
    ELSE
    LET q == ParamIf(Truthy(inp, "override_location"),
                     "overrideLocation", inp, "override_location")
        scanning_messages ==
            IF IsDict(fetch) THEN Get(fetch.obj, "scanningMessages", <<>>) ELSE <<>>
    IN  Fetched(Request("POST",
                        <<"events", inp["event_id"], "tickets", inp["ticket_id"], endpoint>>, q),
                fetch,
                Returned([scanning_messages |-> scanning_messages]))

CheckInAction(inp, fetch) == ScanAction("check-in", inp, fetch)

CheckOutAction(inp, fetch) == ScanAction("check-out", inp, fetch)

(***************************************************************************)
(* Uber                                                                    *)
(*                                                                         *)
(* The Uber handlers test the types of their inputs, so an input value is   *)
(* tagged: a number [num |-> n], a string [str |-> its characters] or null. *)
(***************************************************************************)
API_VERSION == "v1.2"

None == [null |-> TRUE]
Num(n) == [num |-> n]
Str(s) == [str |-> s]

IsNone(v) == "null" \in DOMAIN v
IsNum(v) == "num" \in DOMAIN v
IsStr(v) == "str" \in DOMAIN v

\* inputs.get(k)
Input(inp, k) == Get(inp, k, None)

\* str.strip() and `sub in s`, on sequences of characters
RECURSIVE LStrip(_)
LStrip(s) == IF s # <<>> /\ Head(s) = " " THEN LStrip(Tail(s)) ELSE s

RECURSIVE RStrip(_)
RStrip(s) == IF s # <<>> /\ s[Len(s)] = " " THEN RStrip(SubSeq(s, 1, Len(s) - 1)) ELSE s

Strip(s) == RStrip(LStrip(s))

Contains(s, sub) ==
    \E i \in 1..(Len(s) - Len(sub) + 1) : SubSeq(s, i, i + Len(sub) - 1) = sub

\* UberAPIError(message, error_type)
UberAPIError(message, error_type) ==
    [kind |-> "raised",
     exc |-> [type |-> "UberAPIError", message |-> message, error_type |-> error_type]]

\* str.lower() of a word of the vocabulary
Lower_AsIs(w) == w

Lower(w) ==
    CASE w = "Unauthorized" -> "unauthorized"
      [] w = "Not Found" -> "not found"
      [] w = "Success" -> "success"
      [] w = "OK" -> "ok"
      [] w = "Do not retry" -> "do not retry"
      [] OTHER -> w

\* `marker in error_lower`
InLower(error_str, marker) ==
    \E i \in DOMAIN error_str :
        "w" \in DOMAIN error_str[i] /\ Lower(error_str[i].w) = marker

\* re.search(r'\b([45]\d{2})\b', error_str): the first number 400..599, or 0
RECURSIVE StatusMatch(_)
StatusMatch(error_str) ==
    IF error_str = <<>> THEN 0
    ELSE IF "n" \in DOMAIN Head(error_str) /\ Head(error_str).n \in 400..599
         THEN Head(error_str).n
         ELSE StatusMatch(Tail(error_str))

classify_error_NotFoundFirst(error_str) ==
    LET status_code == StatusMatch(error_str)
    IN  IF status_code = 401 \/ InLower(error_str, "unauthorized") THEN "auth_error"
        ELSE IF status_code = 429 \/ InLower(error_str, "too many requests")
                \/ InLower(error_str, "rate limit") THEN "rate_limited"
        ELSE IF status_code = 404 \/ InLower(error_str, "not found") THEN "not_found"
        ELSE IF status_code \in {400, 422} \/ InLower(error_str, "validation")
                \/ InLower(error_str, "invalid") THEN "validation_error"
        ELSE IF status_code >= 500 THEN "server_error"
        ELSE "api_error"

classify_error_No429(error_str) ==
    LET status_code == StatusMatch(error_str)
    IN  IF status_code = 401 \/ InLower(error_str, "unauthorized") THEN "auth_error"
        ELSE IF InLower(error_str, "too many requests")
                \/ InLower(error_str, "rate limit") THEN "rate_limited"
        ELSE IF status_code \in {400, 422} \/ InLower(error_str, "validation")
                \/ InLower(error_str, "invalid") THEN "validation_error"
        ELSE IF status_code = 404 \/ InLower(error_str, "not found") THEN "not_found"
        ELSE IF status_code >= 500 THEN "server_error"
        ELSE "api_error"

classify_error(error_str) ==
    LET status_code == StatusMatch(error_str)
    IN  IF status_code = 401 \/ InLower(error_str, "unauthorized") THEN "auth_error"
        ELSE IF status_code = 429 \/ InLower(error_str, "too many requests")
                \/ InLower(error_str, "rate limit") THEN "rate_limited"
        ELSE IF status_code \in {400, 422} \/ InLower(error_str, "validation")
                \/ InLower(error_str, "invalid") THEN "validation_error"
        ELSE IF status_code = 404 \/ InLower(error_str, "not found") THEN "not_found"
        ELSE IF status_code >= 500 THEN "server_error"
        ELSE "api_error"

handle_uber_errors_UberOnly(action_name, r) ==
    IF r.outcome.kind # "raised" THEN r
    ELSE IF r.outcome.exc.type = "UberAPIError"
    THEN Done(r.requests, Returned([result |-> FALSE,
                                    error |-> r.outcome.exc.message,
                                    error_type |-> r.outcome.exc.error_type]))
    ELSE r

\* the decorator: r is what the wrapped execute did
handle_uber_errors(action_name, r) ==
    IF r.outcome.kind # "raised" THEN r
    ELSE IF r.outcome.exc.type = "UberAPIError"
    THEN Done(r.requests, Returned([result |-> FALSE,
                                    error |-> r.outcome.exc.message,
                                    error_type |-> r.outcome.exc.error_type]))
    ELSE Done(r.requests, Returned([result |-> FALSE,
                                    error |-> <<Word("Uber API error in"), Word(action_name),
                                                Word(":")>> \o r.outcome.exc.message,
                                    error_type |-> classify_error(r.outcome.exc.message)]))

\* a validator's answer: an error message, or no error
NoError == <<>>

Prefixed(field_prefix, words) ==
    IF field_prefix = "" THEN words ELSE <<Word(field_prefix)>> \o words

validate_coordinates_LatitudeOnly(lat, lng, field_prefix) ==
    IF IsNone(lat) \/ IsNone(lng)
    THEN Prefixed(field_prefix, <<Word("latitude and longitude are"), Word("required")>>)
    ELSE IF ~IsNum(lat) \/ ~IsNum(lng)
    THEN Prefixed(field_prefix, <<Word("latitude and longitude must be numbers")>>)
    ELSE IF lat.num < -90 \/ lat.num > 90
    THEN Prefixed(field_prefix, <<Word("latitude must be between -90 and 90")>>)
    ELSE NoError

validate_coordinates(lat, lng, field_prefix) ==
    IF IsNone(lat) \/ IsNone(lng)
    THEN Prefixed(field_prefix, <<Word("latitude and longitude are"), Word("required")>>)
    ELSE IF ~IsNum(lat) \/ ~IsNum(lng)
    THEN Prefixed(field_prefix, <<Word("latitude and longitude must be numbers")>>)
    ELSE IF lat.num < -90 \/ lat.num > 90
    THEN Prefixed(field_prefix, <<Word("latitude must be between -90 and 90")>>)
    ELSE IF lng.num < -180 \/ lng.num > 180
    THEN Prefixed(field_prefix, <<Word("longitude must be between -180 and 180")>>)
    ELSE NoError

Max(a, b) == IF a >= b THEN a ELSE b
Min(a, b) == IF a <= b THEN a ELSE b

\* validate_seat_count of a seat_count that is not None: a number, or the
\* UberAPIError for a value that is not an integer
validate_seat_count_NoFloor(seat_count) ==
    IF IsNone(seat_count) THEN Returned(Num(2))
    ELSE IF ~IsNum(seat_count)
    THEN UberAPIError(<<Word("seat_count must be an integer (1 or 2)")>>, "validation_error")
    ELSE Returned(Num(Min(seat_count.num, 2)))

validate_seat_count(seat_count) ==
    IF IsNone(seat_count) THEN Returned(Num(2))
    ELSE IF ~IsNum(seat_count)
    THEN UberAPIError(<<Word("seat_count must be an integer (1 or 2)")>>, "validation_error")
    ELSE Returned(Num(Max(1, Min(seat_count.num, 2))))

validate_id_Lenient(value, field_name) ==
    IF IsNone(value) \/ ~IsStr(value) \/ Strip(value.str) = <<>>
    THEN <<Word(field_name), Word("must be a non-empty string")>>
    ELSE IF \E dangerous \in {<<"/">>, <<"\\">>, <<".", ".">>, <<"?">>, <<"&">>,
                              <<"#">>, <<"%">>} : Contains(Strip(value.str), dangerous)
    THEN <<Word(field_name), Word("contains"), Word("invalid"), Word("characters")>>
    ELSE NoError

validate_id_NoPercent(value, field_name) ==
    IF IsNone(value) THEN <<Word(field_name), Word("is"), Word("required")>>
    ELSE IF ~IsStr(value) \/ Strip(value.str) = <<>>
    THEN <<Word(field_name), Word("must be a non-empty string")>>
    ELSE IF \E dangerous \in {<<"/">>, <<"\\">>, <<".", ".">>, <<"?">>, <<"&">>,
                              <<"#">>} : Contains(Strip(value.str), dangerous)
    THEN <<Word(field_name), Word("contains"), Word("invalid"), Word("characters")>>
    ELSE NoError

validate_id(value, field_name) ==
    IF IsNone(value) THEN <<Word(field_name), Word("is"), Word("required")>>
    ELSE IF ~IsStr(value) \/ Strip(value.str) = <<>>
    THEN <<Word(field_name), Word("must be a non-empty string")>>
    ELSE IF \E dangerous \in {<<"/">>, <<"\\">>, <<".", ".">>, <<"?">>, <<"&">>,
                              <<"#">>, <<"%">>} : Contains(Strip(value.str), dangerous)
    THEN <<Word(field_name), Word("contains"), Word("invalid"), Word("characters")>>
    ELSE NoError

\* the call context.fetch(url, **kwargs) that uber_fetch makes
uber_fetch(path, method, params, json_body) ==
    LET given == (IF params # EmptyMap THEN {"params"} ELSE {})
                 \cup (IF json_body # EmptyMap THEN {"json"} ELSE {})
    IN  [url |-> <<API_VERSION, path>>,
         method |-> method,
         kwargs |-> [k \in given |-> IF k = "params" THEN params ELSE json_body]]

\* `response.get(...)` on what the fetch returned: a list has no get
Answered(req, fetch, data) ==
    IF fetch.kind = "raise" THEN Done(<<req>>, Raised("Exception", fetch.err))
    ELSE IF fetch.kind = "array"
    THEN Done(<<req>>, Raised("AttributeError",
                              <<Word("'list' object has no attribute 'get'")>>))
    ELSE Done(<<req>>, Returned(data))

\* the first validator that objects, as the error the handler raises
FirstError(errors) ==
    LET bad == {i \in DOMAIN errors : errors[i] # NoError}
    IN  IF bad = {} THEN NoError
        ELSE errors[CHOOSE i \in bad : \A j \in bad : i <= j]

\* the optional seat_count: validated and stored only when it is not None
WithSeatCount(inp, obj, then(_)) ==
    IF IsNone(Input(inp, "seat_count")) THEN then(obj)
    ELSE LET seats == validate_seat_count(Input(inp, "seat_count"))
         IN  IF seats.kind = "raised" THEN Done(<<>>, seats)
             ELSE then(With(obj, "seat_count", seats.data))

Coordinates(inp, keys) == [k \in keys |-> inp[k]]

GetProductsAction(inp, fetch) ==
    LET coord_error == validate_coordinates(Input(inp, "latitude"),
                                            Input(inp, "longitude"), "")
    IN  IF coord_error # NoError
        THEN Done(<<>>, UberAPIError(coord_error, "validation_error"))
        ELSE Answered(uber_fetch("products", "GET",
                                 Coordinates(inp, {"latitude", "longitude"}), EmptyMap),
                      fetch,
                      [products |-> Get(fetch.obj, "products", <<>>), result |-> TRUE])

TripKeys == {"start_latitude", "start_longitude", "end_latitude", "end_longitude"}

GetPriceEstimateAction(inp, fetch) ==
    LET error == FirstError(<<
            validate_coordinates(Input(inp, "start_latitude"),
                                 Input(inp, "start_longitude"), "start_"),
            validate_coordinates(Input(inp, "end_latitude"),
                                 Input(inp, "end_longitude"), "end_")>>)
        Send(params) ==
            Answered(uber_fetch("estimates/price", "GET", params, EmptyMap), fetch,
                     [prices |-> Get(fetch.obj, "prices", <<>>), result |-> TRUE])
    IN  IF error # NoError THEN Done(<<>>, UberAPIError(error, "validation_error"))
        ELSE WithSeatCount(inp, Coordinates(inp, TripKeys), Send)

GetTimeEstimateAction(inp, fetch) ==
    LET coord_error == validate_coordinates(Input(inp, "start_latitude"),
                                            Input(inp, "start_longitude"), "start_")
        product_id == Input(inp, "product_id")
        given == /\ ~IsNone(product_id)
                 /\ IsStr(product_id)
                 /\ Strip(product_id.str) # <<>>
        product_id_error == IF given THEN validate_id(product_id, "product_id") ELSE NoError
        params == Coordinates(inp, {"start_latitude", "start_longitude"})
    IN  IF coord_error # NoError
        THEN Done(<<>>, UberAPIError(coord_error, "validation_error"))
        ELSE IF product_id_error # NoError
        THEN Done(<<>>, UberAPIError(product_id_error, "validation_error"))
        ELSE Answered(uber_fetch("estimates/time", "GET",
                                 IF given
                                 THEN With(params, "product_id", Str(Strip(product_id.str)))
                                 ELSE params,
                                 EmptyMap),
                      fetch,
                      [times |-> Get(fetch.obj, "times", <<>>), result |-> TRUE])

\* the validation that get_ride_estimate and request_ride start with
RideErrors(inp) ==
    FirstError(<<
        validate_id(Input(inp, "product_id"), "product_id"),
        validate_coordinates(Input(inp, "start_latitude"),
                             Input(inp, "start_longitude"), "start_"),
        validate_coordinates(Input(inp, "end_latitude"),
                             Input(inp, "end_longitude"), "end_")>>)

RideBody(inp) ==
    With(Coordinates(inp, TripKeys), "product_id", Str(Strip(inp["product_id"].str)))

GetRideEstimateAction(inp, fetch) ==
    LET error == RideErrors(inp)
        \* the response is passed on as it is, whatever its type
        Send(body) ==
            Fetched(uber_fetch("requests/estimate", "POST", EmptyMap, body), fetch,
                    Returned([estimate |-> fetch, result |-> TRUE]))
    IN  IF error # NoError THEN Done(<<>>, UberAPIError(error, "validation_error"))
        ELSE WithSeatCount(inp, RideBody(inp), Send)

optional_string_fields ==
    <<"start_address", "start_nickname", "end_address", "end_nickname",
      "fare_id", "surge_confirmation_id", "payment_method_id">>

\* the loop over optional_string_fields, from field i on
RECURSIVE WithOptionalStrings(_, _, _)
WithOptionalStrings(inp, body, i) ==
    IF i > Len(optional_string_fields) THEN body
    ELSE LET field == optional_string_fields[i]
             value == Input(inp, field)
         IN  WithOptionalStrings(inp,
                 IF ~IsNone(value) /\ IsStr(value) /\ Strip(value.str) # <<>>
                 THEN With(body, field, Str(Strip(value.str)))
                 ELSE body,
                 i + 1)

RequestRideAction(inp, fetch) ==
    LET error == RideErrors(inp)
        Send(body) ==
            Answered(uber_fetch("requests", "POST", EmptyMap, body), fetch,
                     [request_id |-> Get(fetch.obj, "request_id", None),
                      status |-> Get(fetch.obj, "status", None),
                      eta |-> Get(fetch.obj, "eta", None),
                      surge_multiplier |-> Get(fetch.obj, "surge_multiplier", None),
                      driver |-> Get(fetch.obj, "driver", None),
                      vehicle |-> Get(fetch.obj, "vehicle", None),
                      result |-> TRUE])
    IN  IF error # NoError THEN Done(<<>>, UberAPIError(error, "validation_error"))
        ELSE WithSeatCount(inp, WithOptionalStrings(inp, RideBody(inp), 1), Send)

\* f"requests/{request_id}{suffix}": the characters of the identifier between
\* the fixed pieces of the path
RidePath(request_id, suffix) == <<"requests/">> \o request_id \o suffix

\* the ride actions: validate the identifier, strip it, fetch, build the output
RideRequest(inp, suffix, method, fetch, data) ==
    LET request_id_error == validate_id(Input(inp, "request_id"), "request_id")
        request_id == Strip(inp["request_id"].str)
        req == uber_fetch(RidePath(request_id, suffix), method, EmptyMap, EmptyMap)
    IN  IF request_id_error # NoError
        THEN Done(<<>>, UberAPIError(request_id_error, "validation_error"))
        ELSE IF fetch.kind = "raise" THEN Done(<<req>>, Raised("Exception", fetch.err))
        ELSE Done(<<req>>, data)

\* what uber_fetch returned
Response(fetch) == IF fetch.kind = "array" THEN [list |-> fetch.items] ELSE fetch.obj

GetRideStatusAction(inp, fetch) ==
    RideRequest(inp, <<>>, "GET", fetch,
                Returned([ride |-> Response(fetch), result |-> TRUE]))

GetRideMapAction(inp, fetch) ==
    RideRequest(inp, <<"/map">>, "GET", fetch,
                IF fetch.kind = "array"
                THEN Raised("AttributeError",
                            <<Word("'list' object has no attribute 'get'")>>)
                ELSE Returned([href |-> Get(fetch.obj, "href", None), result |-> TRUE]))

CancelRideAction(inp, fetch) ==
    RideRequest(inp, <<>>, "DELETE", fetch, Returned([result |-> TRUE]))

GetRideReceiptAction(inp, fetch) ==
    RideRequest(inp, <<"/receipt">>, "GET", fetch,
                Returned([receipt |-> Response(fetch), result |-> TRUE]))

(***************************************************************************)
(* BigQuery                                                                *)
(*                                                                         *)
(* A cell of a row is {"v": value}; the value is a string, null, a record   *)
(* {"f": cells} or, for a repeated field, an array, written List(items).    *)
(***************************************************************************)
BIGQUERY_API_BASE == "https://bigquery.googleapis.com/bigquery/v2"

List(items) == [list |-> items]
IsList(v) == "list" \in DOMAIN v
IsObject(v) == ~IsNone(v) /\ ~IsNum(v) /\ ~IsStr(v) /\ ~IsList(v)

\* Python truthiness of a JSON value
Truth(v) ==
    IF IsNone(v) THEN FALSE
    ELSE IF IsNum(v) THEN v.num # 0
    ELSE IF IsStr(v) THEN v.str # <<>>
    ELSE IF IsList(v) THEN v.list # <<>>
    ELSE DOMAIN v # {}

\* an expression's value, when evaluating it did not raise
Value(v) == [kind |-> "value", value |-> v]

\* `v.get(...)` where v is not a dict
NoGet(v) ==
    Raised("AttributeError",
           <<Word(IF IsNone(v) THEN "'NoneType'" ELSE IF IsList(v) THEN "'list'"
                  ELSE IF IsNum(v) THEN "'int'" ELSE "'str'"),
             Word("object has no attribute 'get'")>>)

\* the first of a sequence of evaluations that raised, or all their values
Collected(results) ==
    LET bad == {i \in DOMAIN results : results[i].kind = "raised"}
    IN  IF bad = {} THEN Value([i \in DOMAIN results |-> results[i].value])
        ELSE results[CHOOSE i \in bad : \A j \in bad : i <= j]

\* field.get("name", f"field_{i}") for the field at (zero-based) index i
FieldName_Positional(field, i) == "field_" \o ToString(i)

FieldName(field, i) == Get(field, "name", "field_" \o ToString(i))

RECURSIVE parse_rows(_, _)
parse_rows(schema, rows) ==
    IF rows = <<>> \/ schema = EmptyMap THEN Value(<<>>)
    ELSE
    LET fields == Get(schema, "fields", <<>>)
        nested(field, cells) ==
            LET sub == parse_rows([fields |-> Get(field, "fields", <<>>)], <<[f |-> cells]>>)
            IN  IF sub.kind = "raised" THEN sub ELSE Value(sub.value[1])
        element(field, v) ==
            IF ~IsObject(v) THEN NoGet(v)
            ELSE IF ~Truth(Get(v, "v", None)) THEN Value(None)
            ELSE IF ~IsObject(v["v"]) THEN NoGet(v["v"])
            ELSE nested(field, Get(v["v"], "f", <<>>))
        scalar(v) == IF ~IsObject(v) THEN NoGet(v) ELSE Value(Get(v, "v", None))
        \* iterating a string gives its characters, a dict its keys: strings
        items(value) ==
            IF IsList(value) THEN value.list
            ELSE IF IsStr(value) THEN [i \in DOMAIN value.str |-> Str(<<value.str[i]>>)]
            ELSE [i \in 1..Cardinality(DOMAIN value) |-> Str(<<"k">>)]
        repeated(value, each(_)) ==
            LET all == Collected([i \in DOMAIN items(value) |-> each(items(value)[i])])
            IN  IF all.kind = "raised" THEN all ELSE Value(List(all.value))
        cell(field, values, i) ==
            IF i > Len(values) THEN Value(None)
            ELSE LET value == Get(values[i], "v", None)
                 IN  IF Get(field, "type", "") = "RECORD" /\ Truth(value)
                     THEN IF Get(field, "mode", "") = "REPEATED"
                          THEN repeated(value, LAMBDA v : element(field, v))
                          ELSE IF ~IsObject(value) THEN NoGet(value)
                          ELSE nested(field, Get(value, "f", <<>>))
                     ELSE IF Get(field, "mode", "") = "REPEATED" /\ Truth(value)
                     THEN repeated(value, scalar)
                     ELSE Value(value)
        parsed_row(row) ==
            LET values == Get(row, "f", <<>>)
                cells == Collected([i \in DOMAIN fields |-> cell(fields[i], values, i)])
                last(name) == CHOOSE i \in DOMAIN fields :
                                  /\ FieldName(fields[i], i - 1) = name
                                  /\ \A j \in DOMAIN fields :
                                        FieldName(fields[j], j - 1) = name => j <= i
            IN  IF cells.kind = "raised" THEN cells
                ELSE Value([name \in {FieldName(fields[i], i - 1) : i \in DOMAIN fields} |->
                                cells.value[last(name)]])
    IN  Collected([r \in DOMAIN rows |-> parsed_row(rows[r])])

RECURSIVE format_schema(_)
format_schema(schema) ==
    IF schema = EmptyMap THEN EmptyMap
    ELSE
    LET fields == Get(schema, "fields", <<>>)
        formatted_field(field) ==
            LET keys == {"name", "type", "mode"}
                        \cup (IF Get(field, "description", "") # "" THEN {"description"} ELSE {})
                        \cup (IF Get(field, "fields", <<>>) # <<>> THEN {"fields"} ELSE {})
            IN  [k \in keys |->
                    CASE k = "name" -> Get(field, "name", None)
                      [] k = "type" -> Get(field, "type", None)
                      [] k = "mode" -> Get(field, "mode", "NULLABLE")
                      [] k = "description" -> field["description"]
                      [] k = "fields" -> format_schema([fields |-> field["fields"]])["fields"]]
    IN  [fields |-> [i \in DOMAIN fields |-> formatted_field(fields[i])]]

\* int(x) of a decimal string or a number
Digits == <<"0", "1", "2", "3", "4", "5", "6", "7", "8", "9">>
IsDigit(c) == \E d \in DOMAIN Digits : Digits[d] = c
DigitValue(c) == (CHOOSE d \in DOMAIN Digits : Digits[d] = c) - 1

RECURSIVE DecimalValue(_)
DecimalValue(s) ==
    IF s = <<>> THEN 0
    ELSE 10 * DecimalValue(SubSeq(s, 1, Len(s) - 1)) + DigitValue(s[Len(s)])

int(x) ==
    IF IsNum(x) THEN Value(x.num)
    ELSE IF IsStr(x)
    THEN LET t == Strip(x.str)
             signed == t # <<>> /\ Head(t) \in {"-", "+"}
             digits == IF signed THEN Tail(t) ELSE t
         IN  IF digits # <<>> /\ \A i \in DOMAIN digits : IsDigit(digits[i])
             THEN Value(IF signed /\ Head(t) = "-" THEN 0 - DecimalValue(digits)
                        ELSE DecimalValue(digits))
             ELSE Raised("ValueError",
                         <<Word("invalid literal for int() with base 10:"), [repr |-> x]>>)
    ELSE Raised("TypeError",
                <<Word("int() argument must be a string, a bytes-like object or a real number")>>)

\* the try block of RunQueryAction.execute
RunQueryTry(inp, fetch) ==
    IF ~Has(inp, "project_id") THEN Done(<<>>, Raised("KeyError", <<Word("'project_id'")>>))
    ELSE IF ~Has(inp, "query") THEN Done(<<>>, Raised("KeyError", <<Word("'query'")>>))
    ELSE
    LET dry_run == Get(inp, "dry_run", FALSE)
        req == [url |-> <<BIGQUERY_API_BASE, "projects", inp["project_id"], "queries">>,
                method |-> "POST",
                json |-> [query |-> inp["query"],
                          useLegacySql |-> Get(inp, "use_legacy_sql", FALSE),
                          maxResults |-> Get(inp, "max_results", 1000),
                          timeoutMs |-> Get(inp, "timeout_ms", 30000),
                          dryRun |-> dry_run]]
        response == fetch.obj
        processed == int(Get(response, "totalBytesProcessed", Num(0)))
        rows == parse_rows(Get(response, "schema", EmptyMap), Get(response, "rows", <<>>))
        total == int(Get(response, "totalRows", Num(0)))
        result_data ==
            [rows |-> rows.value,
             total_rows |-> IF Truth(Get(response, "totalRows", None))
                            THEN total.value ELSE Len(rows.value),
             schema |-> format_schema(Get(response, "schema", EmptyMap)),
             job_id |-> Get(Get(response, "jobReference", EmptyMap), "jobId", None),
             job_complete |-> Get(response, "jobComplete", FALSE),
             total_bytes_processed |-> IF Truth(Get(response, "totalBytesProcessed", None))
                                       THEN Num(processed.value) ELSE None,
             cache_hit |-> Get(response, "cacheHit", None),
             result |-> TRUE]
    IN  IF fetch.kind = "raise" THEN Done(<<req>>, Raised("Exception", fetch.err))
        ELSE IF fetch.kind = "array" THEN Done(<<req>>, NoGet(List(fetch.items)))
        ELSE IF dry_run
        THEN IF processed.kind = "raised" THEN Done(<<req>>, processed)
             ELSE Done(<<req>>, Returned([rows |-> <<>>, total_rows |-> 0,
                                          total_bytes_processed |-> processed.value,
                                          job_complete |-> TRUE, dry_run |-> TRUE,
                                          result |-> TRUE]))
        ELSE IF rows.kind = "raised" THEN Done(<<req>>, rows)
        ELSE IF Truth(Get(response, "totalRows", None)) /\ total.kind = "raised"
        THEN Done(<<req>>, total)
        ELSE IF Truth(Get(response, "totalBytesProcessed", None)) /\ processed.kind = "raised"
        THEN Done(<<req>>, processed)
        ELSE IF Get(response, "pageToken", "") # ""
        THEN Done(<<req>>, Returned(With(result_data, "page_token", response["pageToken"])))
        ELSE Done(<<req>>, Returned(result_data))

\* `except Exception as e`: the failure envelope with str(e)
RunQueryAction(inp, fetch) ==
    LET r == RunQueryTry(inp, fetch)
    IN  IF r.outcome.kind = "raised"
        THEN Done(r.requests, Returned([rows |-> <<>>, result |-> FALSE,
                                        error |-> r.outcome.exc.message]))
        ELSE r

\* `params=params if params else None`
ParamsOrNone(params) == IF params # EmptyMap THEN params ELSE None

GetQueryResultsAction(inp, fetch) ==
    CaughtWith(
        IF ~Has(inp, "project_id") THEN Done(<<>>, Raised("KeyError", <<Word("'project_id'")>>))
        ELSE IF ~Has(inp, "job_id") THEN Done(<<>>, Raised("KeyError", <<Word("'job_id'")>>))
        ELSE
        LET given == Given(Given(EmptyMap, inp, "max_results", "maxResults", 0),
                                inp, "page_token", "pageToken", "")
            params == IF Has(inp, "start_index")
                      THEN With(given, "startIndex", inp["start_index"]) ELSE given
            req == [url |-> <<BIGQUERY_API_BASE, "projects", inp["project_id"], "queries",
                              inp["job_id"]>>,
                    method |-> "GET", params |-> ParamsOrNone(params)]
            response == fetch.obj
            rows == parse_rows(Get(response, "schema", EmptyMap), Get(response, "rows", <<>>))
            total == int(Get(response, "totalRows", Num(0)))
            result_data ==
                [rows |-> rows.value,
                 total_rows |-> IF Truth(Get(response, "totalRows", None))
                                THEN total.value ELSE Len(rows.value),
                 schema |-> format_schema(Get(response, "schema", EmptyMap)),
                 job_complete |-> Get(response, "jobComplete", FALSE),
                 result |-> TRUE]
        IN  IF fetch.kind = "raise" THEN Done(<<req>>, Raised("Exception", fetch.err))
            ELSE IF fetch.kind = "array" THEN Done(<<req>>, NoGet(List(fetch.items)))
            ELSE IF rows.kind = "raised" THEN Done(<<req>>, rows)
            ELSE IF Truth(Get(response, "totalRows", None)) /\ total.kind = "raised"
            THEN Done(<<req>>, total)
            ELSE IF Get(response, "pageToken", "") # ""
            THEN Done(<<req>>, Returned(With(result_data, "page_token", response["pageToken"])))
            ELSE Done(<<req>>, Returned(result_data)),
        [rows |-> <<>>])

ListDatasetsAction(inp, fetch) ==
    CaughtWith(
        IF ~Has(inp, "project_id") THEN Done(<<>>, Raised("KeyError", <<Word("'project_id'")>>))
        ELSE
        LET given == Given(Given(Given(EmptyMap, inp, "max_results",
                                                      "maxResults", 0),
                                           inp, "page_token", "pageToken", ""),
                                inp, "filter", "filter", "")
            params == IF Get(inp, "all", FALSE) THEN With(given, "all", "true") ELSE given
            req == [url |-> <<BIGQUERY_API_BASE, "projects", inp["project_id"], "datasets">>,
                    method |-> "GET", params |-> ParamsOrNone(params)]
            response == fetch.obj
            listed == Get(response, "datasets", <<>>)
            dataset(ds) ==
                [id |-> Get(ds, "id", None),
                 dataset_id |-> Get(Get(ds, "datasetReference", EmptyMap), "datasetId", None),
                 project_id |-> Get(Get(ds, "datasetReference", EmptyMap), "projectId", None),
                 friendly_name |-> Get(ds, "friendlyName", None),
                 location |-> Get(ds, "location", None),
                 labels |-> Get(ds, "labels", EmptyMap)]
            result_data == [datasets |-> [i \in DOMAIN listed |-> dataset(listed[i])],
                            result |-> TRUE]
        IN  IF fetch.kind = "raise" THEN Done(<<req>>, Raised("Exception", fetch.err))
            ELSE IF fetch.kind = "array" THEN Done(<<req>>, NoGet(List(fetch.items)))
            ELSE IF Get(response, "nextPageToken", "") # ""
            THEN Done(<<req>>, Returned(With(result_data, "next_page_token",
                                             response["nextPageToken"])))
            ELSE Done(<<req>>, Returned(result_data)),
        [datasets |-> <<>>])

(***************************************************************************)
(* TikTok                                                                  *)
(*                                                                         *)
(* The "error" member of a response is an object or, in some responses, a   *)
(* plain string, written Text(s).                                           *)
(***************************************************************************)
TIKTOK_API_BASE == "https://open.tiktokapis.com/v2"
STATUS_FETCH_ENDPOINT == <<TIKTOK_API_BASE, "/post/publish/status/fetch/">>

Text(s) == [text |-> s]
IsText(v) == "text" \in DOMAIN v

\* `a or b` on strings
Or(a, b) == IF a # "" THEN a ELSE b

TikTokAPIError(message, error_code, log_id) ==
    [kind |-> "raised",
     exc |-> [type |-> "TikTokAPIError", message |-> message,
              error_code |-> error_code, log_id |-> log_id]]

_check_api_response(response) ==
    LET error == response["error"]
        code == Get(error, "code", "unknown_error")
        log_id == Get(error, "log_id", "")
        data == Get(response, "data", response)
    IN  IF Has(response, "error_code") /\ response["error_code"] # ""
        THEN TikTokAPIError(<<Word("TikTok API error:"),
                              Word(Or(Get(response, "error_message", ""),
                                      Or(Get(response, "message", ""), "Unknown error"))),
                              Word("(code:"), Word(response["error_code"]), Word(")")>>,
                            response["error_code"], Get(response, "log_id", ""))
        ELSE IF Has(response, "error") /\ ~IsText(error) /\ code = "ok"
        THEN Value(data)
        ELSE IF Has(response, "error") /\ ~IsText(error)
        THEN CASE code = "access_token_invalid" ->
                      TikTokAPIError(<<Word("Access token is invalid or expired.")>>,
                                     code, log_id)
               [] code = "rate_limit_exceeded" ->
                      TikTokAPIError(<<Word("Rate limit exceeded.")>>, code, log_id)
               [] code = "scope_not_authorized" ->
                      TikTokAPIError(<<Word("Required scope not authorized. Code:"),
                                       Word(code), Word(", Log ID:"), Word(log_id)>>,
                                     code, log_id)
               [] OTHER ->
                      TikTokAPIError(<<Word("TikTok API error:")>>
                                     \o (IF Get(error, "message", "") # ""
                                         THEN <<Word(error["message"])>>
                                         ELSE IF Get(error, "description", "") # ""
                                         THEN <<Word(error["description"])>>
                                         ELSE <<[repr |-> error]>>)
                                     \o <<Word("(code:"), Word(code), Word(", log_id:"),
                                          Word(log_id), Word(")")>>,
                                     code, log_id)
        ELSE IF Has(response, "error") /\ error.text # ""
        THEN TikTokAPIError(<<Word("TikTok API error:"), Word(error.text)>>, "", "")
        ELSE IF /\ Has(response, "message")
                /\ Get(response, "data", EmptyMap) = EmptyMap
                /\ response["message"] # ""
                /\ Lower(response["message"]) \notin {"success", "ok", ""}
        THEN TikTokAPIError(<<Word("TikTok API error:"), Word(response["message"])>>, "", "")
        ELSE Value(data)

_build_post_status(data) ==
    LET post_ids == Get(data, "publicaly_available_post_id", <<>>)
    IN  [status |-> Get(data, "status", ""),
         fail_reason |-> Get(data, "fail_reason", ""),
         publicaly_available_post_id |-> post_ids,
         publicly_available_post_id |-> post_ids,
         uploaded_bytes |-> Get(data, "uploaded_bytes", 0),
         error_code |-> Get(data, "error_code", "")]

GetPostStatusHandler(inp, fetch) ==
    IF Get(inp, "publish_id", "") = ""
    THEN Done(<<>>, Raised("ValueError", <<Word("publish_id is"), Word("required")>>))
    ELSE
    LET req == [url |-> STATUS_FETCH_ENDPOINT, method |-> "POST",
                json |-> [publish_id |-> inp["publish_id"]]]
        data == _check_api_response(fetch.obj)
    IN  IF fetch.kind = "raise" THEN Done(<<req>>, Raised("Exception", fetch.err))
        ELSE IF fetch.kind = "array" THEN Done(<<req>>, NoGet(List(fetch.items)))
        ELSE IF data.kind = "raised" THEN Done(<<req>>, data)
        ELSE Done(<<req>>, Returned(_build_post_status(data.value)))

(***************************************************************************)
(* TikTok video upload.  A file's content is written as the number of       *)
(* bytes its base64 text decodes to, the empty text being 0 and a text      *)
(* that does not decode being Undecodable.  The chunks go to the upload     *)
(* URL through an aiohttp session: a chunk is answered with an HTTP status  *)
(* and a text, or the PUT raises.                                           *)
(***************************************************************************)
VIDEO_INIT_ENDPOINT == <<TIKTOK_API_BASE, "/post/publish/video/init/">>
INBOX_VIDEO_INIT_ENDPOINT == <<TIKTOK_API_BASE, "/post/publish/inbox/video/init/">>

MIN_CHUNK_SIZE == 5242880
MAX_CHUNK_SIZE == 67108864
DEFAULT_CHUNK_SIZE == 10485760
MAX_VIDEO_SIZE == 300941312
MAX_CAPTION_LENGTH == 2200

Undecodable == -1

ValueError(message) == Raised("ValueError", message)

_validate_video_content(content) ==
    IF content = 0 THEN ValueError(<<Word("video_content_base64 is required")>>)
    ELSE IF content = Undecodable THEN ValueError(<<Word("Invalid base64 encoding:")>>)
    ELSE IF content > MAX_VIDEO_SIZE
    THEN ValueError(<<Word("Video size ("), Code(content),
                      Word("bytes) exceeds maximum allowed ("), Code(MAX_VIDEO_SIZE),
                      Word("bytes)")>>)
    ELSE Value(content)

_validate_chunk_size_NoFloor(chunk_size, video_size) ==
    IF video_size < MIN_CHUNK_SIZE THEN video_size
    ELSE Min(chunk_size, MAX_CHUNK_SIZE)

_validate_chunk_size(chunk_size, video_size) ==
    IF video_size < MIN_CHUNK_SIZE THEN video_size
    ELSE Max(MIN_CHUNK_SIZE, Min(chunk_size, MAX_CHUNK_SIZE))

_calculate_chunk_count_Floor(video_size, chunk_size) ==
    IF video_size <= chunk_size THEN 1
    ELSE video_size \div chunk_size

_calculate_chunk_count(video_size, chunk_size) ==
    IF video_size <= chunk_size THEN 1
    ELSE (video_size + chunk_size - 1) \div chunk_size

\* the length of the video of the "file" input or, without one, of the first of
\* "files"
_get_video_content(inp) ==
    LET files == Get(inp, "files", <<>>)
        file_obj == IF Get(inp, "file", EmptyMap) # EmptyMap THEN inp["file"]
                    ELSE IF files # <<>> THEN files[1]
                    ELSE EmptyMap
    IN  IF file_obj = EmptyMap
        THEN ValueError(<<Word("A video file is required. Provide 'file' or 'files' with video content.")>>)
        ELSE IF Get(file_obj, "content", 0) = 0
        THEN ValueError(<<Word("File content is empty")>>)
        ELSE _validate_video_content(file_obj["content"])

_build_post_info(inp) ==
    LET post_info == [privacy_level |-> Get(inp, "privacy_level", "PUBLIC_TO_EVERYONE"),
                      disable_comment |-> Get(inp, "disable_comment", FALSE),
                      disable_duet |-> Get(inp, "disable_duet", FALSE),
                      disable_stitch |-> Get(inp, "disable_stitch", FALSE)]
        titled == IF Get(inp, "title", <<>>) # <<>>
                  THEN With(post_info, "title",
                            SubSeq(inp["title"], 1, Min(Len(inp["title"]), MAX_CAPTION_LENGTH)))
                  ELSE post_info
    IN  Merge(titled, [k \in DOMAIN inp \cap {"video_cover_timestamp_ms",
                                              "brand_content_toggle",
                                              "brand_organic_toggle"} |-> inp[k]])

Accepted_AnyStatus(status) == status = status

\* `response.status not in (200, 201, 206)` fails the upload
Accepted(status) == status \in {200, 201, 206}

\* the loop of _upload_video_chunks from chunk_index on: answers are what the PUTs
\* left to make are answered with
RECURSIVE _upload_video_chunks(_, _, _, _, _)
_upload_video_chunks(upload_url, video_size, chunk_size, chunk_index, answers) ==
    LET total_chunks == _calculate_chunk_count(video_size, chunk_size)
        start == chunk_index * chunk_size
        end == Min(start + chunk_size, video_size)
        put == [url |-> upload_url, method |-> "PUT",
                data |-> [start |-> start, end |-> end],
                headers |-> [h \in {"Content-Type", "Content-Length", "Content-Range"} |->
                                IF h = "Content-Type" THEN <<Word("video/mp4")>>
                                ELSE IF h = "Content-Length" THEN <<Code(end - start)>>
                                ELSE <<Word("bytes"), Code(start), Word("-"), Code(end - 1),
                                       Word("/"), Code(video_size)>>]]
        answer == Head(answers)
        rest == _upload_video_chunks(upload_url, video_size, chunk_size, chunk_index + 1,
                                     Tail(answers))
    IN  IF chunk_index >= total_chunks THEN Done(<<>>, Value(None))
        ELSE IF answer.kind = "raise" THEN Done(<<put>>, Raised("Exception", answer.err))
        ELSE IF ~Accepted(answer.status)
        THEN Done(<<put>>,
                  TikTokAPIError(<<Word("Failed to upload chunk"), Code(chunk_index + 1),
                                   Word("/"), Code(total_chunks), Word(":"),
                                   Word(answer.text)>>, "upload_failed", ""))
        ELSE Done(<<put>> \o rest.requests, rest.outcome)

\* what CreateVideoPostHandler and UploadVideoDraftHandler do alike: the init
\* request to endpoint, with post_info in its body when the handler builds one,
\* and the upload of the chunks
UploadVideo(inp, script, endpoint, post) ==
    LET video == _get_video_content(inp)
        video_size == video.value
        chunk_size == _validate_chunk_size(Get(inp, "chunk_size", DEFAULT_CHUNK_SIZE),
                                           video_size)
        request_body ==
            Merge(post,
                  [source_info |->
                       [source |-> "FILE_UPLOAD",
                        video_size |-> video_size,
                        chunk_size |-> chunk_size,
                        total_chunk_count |-> _calculate_chunk_count(video_size, chunk_size)]])
        init == [url |-> endpoint, method |-> "POST", json |-> request_body]
        data == _check_api_response(script[1].obj)
        upload_url == Get(data.value, "upload_url", "")
        chunks == _upload_video_chunks(upload_url, video_size, chunk_size, 0, Tail(script))
    IN  IF video.kind = "raised" THEN Done(<<>>, video)
        ELSE IF script[1].kind = "raise" THEN Done(<<init>>, Raised("Exception", script[1].err))
        ELSE IF script[1].kind = "array" THEN Done(<<init>>, NoGet(List(script[1].items)))
        ELSE IF data.kind = "raised" THEN Done(<<init>>, data)
        ELSE IF upload_url = ""
        THEN Done(<<init>>, TikTokAPIError(<<Word("No upload URL returned from TikTok")>>,
                                           "missing_upload_url", ""))
        ELSE IF chunks.outcome.kind = "raised" THEN Done(<<init>> \o chunks.requests, chunks.outcome)
        ELSE Done(<<init>> \o chunks.requests,
                  Returned([publish_id |-> Get(data.value, "publish_id", ""),
                            status |-> "PROCESSING_UPLOAD"]))

CreateVideoPostHandler(inp, script) ==
    UploadVideo(inp, script, VIDEO_INIT_ENDPOINT, [post_info |-> _build_post_info(inp)])

UploadVideoDraftHandler(inp, script) ==
    UploadVideo(inp, script, INBOX_VIDEO_INIT_ENDPOINT, EmptyMap)

(***************************************************************************)
(* TikTok user info.  The fields of the vendor's user object are JSON       *)
(* values: Str(chars), Num(n), Bool(b) or None.                             *)
(***************************************************************************)
USER_INFO_ENDPOINT == <<TIKTOK_API_BASE, "/user/info/">>

\* BASIC_USER_INFO_FIELDS + PROFILE_USER_INFO_FIELDS + STATS_USER_INFO_FIELDS
ALL_USER_INFO_FIELDS ==
    <<"open_id", "union_id", "avatar_url", "avatar_url_100", "avatar_large_url",
      "display_name">>
    \o <<"bio_description", "profile_deep_link", "is_verified">>
    \o <<"follower_count", "following_count", "likes_count", "video_count">>

Bool(b) == [bool |-> b]

_build_user_info(data) ==
    LET user == Get(data, "user", data)
    IN  [k \in {"open_id", "union_id", "avatar_url", "avatar_url_100", "avatar_large_url",
                "display_name", "bio_description", "profile_deep_link", "is_verified",
                "follower_count", "following_count", "likes_count", "video_count"} |->
            Get(user, k,
                IF k = "is_verified" THEN Bool(FALSE)
                ELSE IF k \in {"follower_count", "following_count", "likes_count",
                               "video_count"}
                THEN Num(0)
                ELSE Str(<<>>))]

GetUserInfoHandler(inp, fetch) ==
    LET req == [url |-> USER_INFO_ENDPOINT, method |-> "GET",
                params |-> [fields |-> ALL_USER_INFO_FIELDS]]
        data == _check_api_response(fetch.obj)
    IN  IF fetch.kind = "raise" THEN Done(<<req>>, Raised("Exception", fetch.err))
        ELSE IF fetch.kind = "array" THEN Done(<<req>>, NoGet(List(fetch.items)))
        ELSE IF data.kind = "raised" THEN Done(<<req>>, data)
        ELSE Done(<<req>>, Returned(_build_user_info(data.value)))

(***************************************************************************)
(* AWS                                                                     *)
(*                                                                         *)
(* The AWS actions call a boto3 client instead of context.fetch: a request  *)
(* is the client method with its keyword arguments.  An action that makes   *)
(* several calls is given a script: what the vendor does at each call.      *)
(***************************************************************************)
Call(op, kwargs) == [op |-> op, kwargs |-> kwargs]

\* a botocore ClientError: an exception with a response attribute
ClientError(code, message) ==
    [kind |-> "raise", err |-> <<Word("An error occurred ("), Word(code), Word(")")>>,
     response |-> [Error |-> [Code |-> code, Message |-> message]]]

\* the exception a vendor call raised, as execute sees it
Thrown(behaviour) ==
    [kind |-> "raised",
     exc |-> IF "response" \in DOMAIN behaviour
             THEN [type |-> "ClientError", message |-> behaviour.err,
                   response |-> behaviour.response]
             ELSE [type |-> "Exception", message |-> behaviour.err]]

\* serialize_response leaves strings, numbers, booleans, None, dicts and lists
\* as they are; the keys of data come after "result" and win over it
success_result(data) == Returned(Merge(data, [result |-> TRUE]))

error_result(e) ==
    Returned([result |-> FALSE,
              error |-> IF "response" \in DOMAIN e
                        THEN Get(Get(e.response, "Error", EmptyMap), "Message", e.message)
                        ELSE e.message,
              error_code |-> IF "response" \in DOMAIN e
                             THEN Get(Get(e.response, "Error", EmptyMap), "Code", "")
                             ELSE ""])

\* `except Exception as e: return error_result(e)` around the body of execute
Caught(r) ==
    IF r.outcome.kind = "raised" THEN Done(r.requests, error_result(r.outcome.exc)) ELSE r

\* the first key of keys that the mapping lacks, as the KeyError it raises
KeyError(key) == Raised("KeyError", <<Word("'" \o key \o "'")>>)

NotFoundEntries_FirstOnly(finding_arns) ==
    [i \in DOMAIN finding_arns \cap {1} |->
        [FindingIdentifier |-> [Id |-> finding_arns[i]],
         ErrorCode |-> "FindingNotFound",
         ErrorMessage |-> "Finding not found"]]

\* the unprocessed_findings of a lookup without a match: an entry per supplied ARN
NotFoundEntries(finding_arns) ==
    [i \in DOMAIN finding_arns |->
        [FindingIdentifier |-> [Id |-> finding_arns[i]],
         ErrorCode |-> "FindingNotFound",
         ErrorMessage |-> "Finding not found"]]

UpdateFindingWorkflowAction(inp, script) ==
    Caught(
        IF ~Has(inp, "finding_arns") THEN Done(<<>>, KeyError("finding_arns"))
        ELSE IF ~Has(inp, "workflow_status") THEN Done(<<>>, KeyError("workflow_status"))
        ELSE
        LET finding_arns == inp["finding_arns"]
            lookup == Call("get_findings",
                           [Filters |-> [Id |-> [i \in DOMAIN finding_arns |->
                                                    [Value |-> finding_arns[i],
                                                     Comparison |-> "EQUALS"]]],
                            MaxResults |-> Len(finding_arns)])
            findings == Get(script[1].obj, "Findings", <<>>)
            incomplete == {i \in DOMAIN findings : ~Has(findings[i], "Id")
                                                    \/ ~Has(findings[i], "ProductArn")}
            first == CHOOSE i \in incomplete : \A j \in incomplete : i <= j
            finding_identifiers ==
                [i \in DOMAIN findings |-> [Id |-> findings[i]["Id"],
                                           ProductArn |-> findings[i]["ProductArn"]]]
            workflow == [FindingIdentifiers |-> finding_identifiers,
                         Workflow |-> [Status |-> inp["workflow_status"]]]
            update == Call("batch_update_findings",
                           IF Get(inp, "note", "") # ""
                           THEN With(workflow, "Note",
                                     [Text |-> inp["note"], UpdatedBy |-> "autohive-integration"])
                           ELSE workflow)
        IN  IF script[1].kind = "raise" THEN Done(<<lookup>>, Thrown(script[1]))
            ELSE IF incomplete # {}
            THEN Done(<<lookup>>, KeyError(IF ~Has(findings[first], "Id") THEN "Id"
                                           ELSE "ProductArn"))
            ELSE IF finding_identifiers = <<>>
            THEN Done(<<lookup>>,
                      success_result([processed_findings |-> <<>>,
                                      unprocessed_findings |-> NotFoundEntries(finding_arns)]))
            ELSE IF script[2].kind = "raise" THEN Done(<<lookup, update>>, Thrown(script[2]))
            ELSE Done(<<lookup, update>>,
                      success_result(
                          [processed_findings |-> Get(script[2].obj, "ProcessedFindings", <<>>),
                           unprocessed_findings |->
                               Get(script[2].obj, "UnprocessedFindings", <<>>)])))

ArchiveFindingsAction(inp, script) ==
    Caught(
        IF ~Has(inp, "detector_id") THEN Done(<<>>, KeyError("detector_id"))
        ELSE IF ~Has(inp, "finding_ids") THEN Done(<<>>, KeyError("finding_ids"))
        ELSE
        LET archive == Call("archive_findings", [DetectorId |-> inp["detector_id"],
                                                 FindingIds |-> inp["finding_ids"]])
        IN  IF script[1].kind = "raise" THEN Done(<<archive>>, Thrown(script[1]))
            ELSE Done(<<archive>>, success_result([success |-> TRUE])))

InsightResults_EmptyOnFailure(called, answer) ==
    IF ~called \/ answer.kind = "raise" THEN EmptyMap
    ELSE Get(answer.obj, "InsightResults", EmptyMap)

\* the results of one insight: those of its get_insight_results call, None when
\* the call, or the insight["InsightArn"] before it, raised
InsightResults(called, answer) ==
    IF ~called \/ answer.kind = "raise" THEN None
    ELSE Get(answer.obj, "InsightResults", EmptyMap)

\* the loop over the insights: answers are the vendor behaviours left for the
\* get_insight_results calls
RECURSIVE EnrichedInsights(_, _)
EnrichedInsights(insights, answers) ==
    IF insights = <<>> THEN [requests |-> <<>>, insights |-> <<>>]
    ELSE
    LET insight == Head(insights)
        called == Has(insight, "InsightArn")
        insight_data == [insight_arn |-> Get(insight, "InsightArn", None),
                         name |-> Get(insight, "Name", None),
                         filters |-> Get(insight, "Filters", None),
                         group_by_attribute |-> Get(insight, "GroupByAttribute", None),
                         results |-> InsightResults(called, Head(answers))]
        rest == EnrichedInsights(Tail(insights), IF called THEN Tail(answers) ELSE answers)
    IN  [requests |-> (IF called
                       THEN <<Call("get_insight_results",
                                   [InsightArn |-> insight["InsightArn"]])>>
                       ELSE <<>>) \o rest.requests,
         insights |-> <<insight_data>> \o rest.insights]

GetInsightsAction(inp, script) ==
    Caught(
        LET kwargs == Given(Given([MaxResults |-> Get(inp, "max_results", 20)],
                                  inp, "insight_arns", "InsightArns", <<>>),
                            inp, "next_token", "NextToken", "")
            primary == Call("get_insights", kwargs)
            enriched == EnrichedInsights(Get(script[1].obj, "Insights", <<>>), Tail(script))
        IN  IF script[1].kind = "raise" THEN Done(<<primary>>, Thrown(script[1]))
            ELSE Done(<<primary>> \o enriched.requests,
                      success_result([insights |-> enriched.insights,
                                      next_token |-> Get(script[1].obj, "NextToken", None)])))

ListDetectorsAction(inp, script) ==
    Caught(
        LET kwargs == Given([MaxResults |-> Get(inp, "max_results", 50)],
                            inp, "next_token", "NextToken", "")
            list == Call("list_detectors", kwargs)
        IN  IF script[1].kind = "raise" THEN Done(<<list>>, Thrown(script[1]))
            ELSE Done(<<list>>,
                      success_result([detector_ids |-> Get(script[1].obj, "DetectorIds", <<>>),
                                      next_token |-> Get(script[1].obj, "NextToken", None)])))

\* datetime.fromisoformat(...).timestamp() * 1000 of the texts used here; any
\* other text is no ISO time
IsoTimes ==
    [iso_string \in {"1970-01-01T00:00:01Z", "1970-01-01T00:00:02+00:00"} |->
        IF iso_string = "1970-01-01T00:00:01Z" THEN 1000 ELSE 2000]

_iso_to_epoch_ms(iso_string) ==
    IF iso_string \in DOMAIN IsoTimes THEN Value(IsoTimes[iso_string])
    ELSE Raised("ValueError", <<Word("Invalid isoformat string:"), [repr |-> iso_string]>>)

GetLogEventsAction(inp, script) ==
    Caught(
        IF ~Has(inp, "log_group_name") THEN Done(<<>>, KeyError("log_group_name"))
        ELSE IF ~Has(inp, "log_stream_name") THEN Done(<<>>, KeyError("log_stream_name"))
        ELSE
        LET start == _iso_to_epoch_ms(Get(inp, "start_time", ""))
            end == _iso_to_epoch_ms(Get(inp, "end_time", ""))
            base == [logGroupName |-> inp["log_group_name"],
                     logStreamName |-> inp["log_stream_name"],
                     limit |-> Get(inp, "limit", 50),
                     startFromHead |-> Get(inp, "start_from_head", TRUE)]
            started == IF Get(inp, "start_time", "") # ""
                       THEN With(base, "startTime", start.value) ELSE base
            ended == IF Get(inp, "end_time", "") # ""
                     THEN With(started, "endTime", end.value) ELSE started
            get == Call("get_log_events", Given(ended, inp, "next_token", "nextToken", ""))
        IN  IF Get(inp, "start_time", "") # "" /\ start.kind = "raised" THEN Done(<<>>, start)
            ELSE IF Get(inp, "end_time", "") # "" /\ end.kind = "raised" THEN Done(<<>>, end)
            ELSE IF script[1].kind = "raise" THEN Done(<<get>>, Thrown(script[1]))
            ELSE Done(<<get>>,
                      success_result(
                          [events |-> Get(script[1].obj, "events", <<>>),
                           next_forward_token |-> Get(script[1].obj, "nextForwardToken", None),
                           next_backward_token |->
                               Get(script[1].obj, "nextBackwardToken", None)])))

(***************************************************************************)
(* Microsoft Excel                                                         *)
(***************************************************************************)
GRAPH_BASE_URL == "https://graph.microsoft.com/v1.0"

GraphRequest(method, parts) == [url |-> <<GRAPH_BASE_URL>> \o parts, method |-> method]

\* {k: item.get(k) for k in keys}
Picked(item, keys) == [k \in keys |-> Get(item, k, None)]

\* a list filled from the "value" of a secondary fetch inside try/except: it
\* stays empty when the fetch raises, or returns what has no get
Listed(answer, keys) ==
    IF answer.kind = "object"
    THEN LET value == Get(answer.obj, "value", <<>>)
         IN  [i \in DOMAIN value |-> Picked(value[i], keys)]
    ELSE <<>>

GetWorkbook(inp, script) ==
    CaughtWith(
        IF ~Has(inp, "workbook_id") THEN Done(<<>>, KeyError("workbook_id"))
        ELSE
        LET item == <<"/me/drive/items/", inp["workbook_id"]>>
            file == GraphRequest("GET", item)
            secondaries == <<GraphRequest("GET", item \o <<"/workbook/worksheets">>),
                             GraphRequest("GET", item \o <<"/workbook/tables">>),
                             GraphRequest("GET", item \o <<"/workbook/names">>)>>
        IN  IF script[1].kind = "raise"
            THEN Done(<<file>>, Raised("Exception", script[1].err))
            ELSE Done(<<file>> \o secondaries,
                      Returned([workbook |-> Picked(script[1].obj,
                                                    {"id", "name", "webUrl",
                                                     "lastModifiedDateTime"}),
                                worksheets |-> Listed(script[2], {"id", "name", "position", "visibility"}),
                                tables |-> Listed(script[3],
                                           {"id", "name", "showHeaders", "showTotals",
                                            "style"}),
                                named_ranges |-> Listed(script[4], {"name", "value", "type"}),
                                result |-> TRUE])),
        EmptyMap)

\* urllib.parse.quote over the characters the sheet names and addresses here
\* are written with: letters and digits stay, the others become %XX unless safe
PercentEncoded ==
    [c \in {" ", "/", ":", "!", "'"} |->
        CASE c = " " -> "%20" [] c = "/" -> "%2F" [] c = ":" -> "%3A"
          [] c = "!" -> "%21" [] c = "'" -> "%27"]

quote(segment, safe) ==
    [i \in DOMAIN segment |->
        IF segment[i] \in DOMAIN PercentEncoded /\ segment[i] \notin safe
        THEN PercentEncoded[segment[i]] ELSE segment[i]]

encode_path_segment(segment) == quote(segment, {})
encode_range_address(address) == quote(address, {":"})

\* the PATCH requests of FormatRange that format_spec asks for, in the order
\* execute makes them, each with the label of its error
FormatPlan(workbook_id, worksheet_name, range_address, format_spec) ==
    LET range_url == <<"/me/drive/items/", workbook_id, "/workbook/worksheets/">>
                     \o encode_path_segment(worksheet_name) \o <<"/range(address='">>
                     \o encode_range_address(range_address) \o <<"')">>
        base_url == range_url \o <<"/format">>
        alignment_body == [k \in DOMAIN format_spec
                                 \cap {"horizontalAlignment", "verticalAlignment"} |->
                              format_spec[k]]
        Patch(label, parts, body) ==
            [label |-> label, req |-> With(GraphRequest("PATCH", parts), "json", body)]
    IN  (IF Has(format_spec, "font")
         THEN <<Patch("Font:", base_url \o <<"/font">>, format_spec["font"])>> ELSE <<>>)
        \o (IF Has(format_spec, "fill")
            THEN <<Patch("Fill:", base_url \o <<"/fill">>, format_spec["fill"])>> ELSE <<>>)
        \o (IF DOMAIN alignment_body # {}
            THEN <<Patch("Alignment:", base_url, alignment_body)>> ELSE <<>>)
        \o (IF Has(format_spec, "numberFormat")
            THEN <<Patch("NumberFormat:", range_url,
                         [numberFormat |-> format_spec["numberFormat"]])>>
            ELSE <<>>)

\* "; ".join(errors): the labelled message of every request of the plan that raised
RECURSIVE FormatErrors(_, _)
FormatErrors(plan, answers) ==
    IF plan = <<>> THEN <<>>
    ELSE LET rest == FormatErrors(Tail(plan), Tail(answers))
         IN  IF Head(answers).kind # "raise" THEN rest
             ELSE <<Word(Head(plan).label)>> \o Head(answers).err
                  \o (IF rest = <<>> THEN <<>> ELSE <<Word(";")>> \o rest)

FormatRange(inp, script) ==
    CaughtWith(
        IF \E k \in {"workbook_id", "worksheet_name", "range", "format"} : ~Has(inp, k)
        THEN Done(<<>>, KeyError(CHOOSE k \in {"workbook_id", "worksheet_name", "range", "format"} :
                                    /\ ~Has(inp, k)
                                    /\ k = "worksheet_name" => Has(inp, "workbook_id")
                                    /\ k = "range" => Has(inp, "workbook_id")
                                                      /\ Has(inp, "worksheet_name")
                                    /\ k = "format" => Has(inp, "workbook_id")
                                                       /\ Has(inp, "worksheet_name")
                                                       /\ Has(inp, "range")))
        ELSE
        LET plan == FormatPlan(inp["workbook_id"], inp["worksheet_name"], inp["range"],
                               inp["format"])
            errors == FormatErrors(plan, script)
        IN  Done([i \in DOMAIN plan |-> plan[i].req],
                 IF errors # <<>>
                 THEN Returned([formatted |-> FALSE, result |-> FALSE, error |-> errors])
                 ELSE Returned([formatted |-> TRUE, result |-> TRUE])),
        [formatted |-> FALSE])

\* list.index(c): the first position of c, counted from 1
IndexOf(list, c) == CHOOSE i \in DOMAIN list : list[i] = c /\ \A j \in 1..(i - 1) : list[j] # c

\* rows[skip:] and rows[:top]
SliceFrom(rows, skip) == SubSeq(rows, skip + 1, Len(rows))
SliceTo(rows, top) ==
    SubSeq(rows, 1, IF top >= 0 THEN Min(top, Len(rows)) ELSE Max(0, Len(rows) + top))

\* a cell of a table is Str(chars) or None; select_columns given as None or as
\* an empty list is written as an input that is not given
GetTableData(inp, script) ==
    CaughtWith(
        IF ~Has(inp, "workbook_id") THEN Done(<<>>, KeyError("workbook_id"))
        ELSE IF ~Has(inp, "table_name") THEN Done(<<>>, KeyError("table_name"))
        ELSE
        LET select_columns == Get(inp, "select_columns", <<>>)
            max_rows == Get(inp, "max_rows", 5000)
            table == <<"/me/drive/items/", inp["workbook_id"], "/workbook/tables/">>
                     \o encode_path_segment(inp["table_name"])
            header_req == GraphRequest("GET", table \o <<"/headerRowRange">>)
            rows_req == GraphRequest("GET", table \o <<"/dataBodyRange">>)
            header_values == Get(script[1].obj, "values", <<<<>>>>)
            all_headers == header_values[1]
            missing_cols == SelectSeq(select_columns,
                                      LAMBDA c : \A i \in DOMAIN all_headers :
                                                     all_headers[i] # c)
            all_rows == Get(script[2].obj, "values", <<>>)
            col_indices == [k \in DOMAIN select_columns |->
                               IndexOf(all_headers, select_columns[k])]
            headers_out == IF select_columns # <<>>
                           THEN [k \in DOMAIN col_indices |-> all_headers[col_indices[k]]]
                           ELSE all_headers
            \* [row[i] for i in col_indices if i < len(row)]
            selected(row) ==
                LET kept == SelectSeq(col_indices, LAMBDA i : i <= Len(row))
                IN  [j \in DOMAIN kept |-> row[kept[j]]]
            filtered == IF select_columns # <<>>
                        THEN [r \in DOMAIN all_rows |-> selected(all_rows[r])]
                        ELSE all_rows
            skipped == IF Has(inp, "skip") /\ inp["skip"] > 0
                       THEN SliceFrom(filtered, inp["skip"]) ELSE filtered
            rows_out == IF Has(inp, "top") THEN SliceTo(skipped, inp["top"]) ELSE skipped
            \* a header met again overwrites the key
            row_obj(row) ==
                [header \in {headers_out[i] : i \in DOMAIN headers_out} |->
                    LET i == CHOOSE i \in DOMAIN headers_out :
                                 /\ headers_out[i] = header
                                 /\ \A j \in DOMAIN headers_out :
                                        headers_out[j] = header => j <= i
                    IN  IF i <= Len(row) THEN row[i] ELSE None]
        IN  IF script[1].kind = "raise"
            THEN Done(<<header_req>>, Raised("Exception", script[1].err))
            ELSE IF script[1].kind = "array"
            THEN Done(<<header_req>>, NoGet(List(script[1].items)))
            ELSE IF header_values = <<>>
            THEN Done(<<header_req>>,
                      Raised("IndexError", <<Word("list index out of range")>>))
            ELSE IF missing_cols # <<>>
            THEN Done(<<header_req>>,
                      Returned([result |-> FALSE,
                                error |-> <<Word("Columns not found:"), missing_cols,
                                            Word(". Available columns:"), all_headers>>]))
            ELSE IF script[2].kind = "raise"
            THEN Done(<<header_req, rows_req>>, Raised("Exception", script[2].err))
            ELSE IF script[2].kind = "array"
            THEN Done(<<header_req, rows_req>>, NoGet(List(script[2].items)))
            ELSE IF max_rows # 0 /\ Len(all_rows) > max_rows
            THEN Done(<<header_req, rows_req>>,
                      Returned([result |-> FALSE,
                                error |-> <<Word("Table has"), Code(Len(all_rows)),
                                            Word("rows, exceeding max_rows limit of"),
                                            Code(max_rows),
                                            Word(". Use pagination (top/skip) or increase max_rows.")>>]))
            ELSE Done(<<header_req, rows_req>>,
                      Returned([headers |-> headers_out,
                                rows |-> [r \in DOMAIN rows_out |-> row_obj(rows_out[r])],
                                total_rows |-> Len(all_rows),
                                result |-> TRUE])),
        EmptyMap)

(***************************************************************************)
(* Bitly.  A bitlink is written as the sequence of its parts: a scheme, a   *)
(* domain, "/", a path, and possibly "?" and a query.  An input given as    *)
(* None is written as an input that is not given.                           *)
(***************************************************************************)
BITLY_API_BASE_URL == "https://api-ssl.bitly.com/v4"

\* the netloc and the path of a URL without its scheme: all up to "?" or "#"
NetlocAndPath(parts) ==
    LET stops == {i \in DOMAIN parts : parts[i] \in {"?", "#"}}
    IN  IF stops = {} THEN parts
        ELSE SubSeq(parts, 1, (CHOOSE i \in stops : \A j \in stops : i <= j) - 1)

normalize_bitlink(bitlink) ==
    IF bitlink # <<>> /\ Head(bitlink) \in {"http://", "https://"}
    THEN NetlocAndPath(Tail(bitlink))
    ELSE IF \E i \in DOMAIN bitlink : bitlink[i] = "/" THEN bitlink
    ELSE <<"bit.ly", "/">> \o bitlink

encode_bitlink_for_url(bitlink) == quote(bitlink, {})

UpdateBitlinkAction(inp, fetch) ==
    CaughtWith(
        IF ~Has(inp, "bitlink") THEN Done(<<>>, KeyError("bitlink"))
        ELSE
        LET body == [k \in DOMAIN inp \cap {"title", "tags", "archived"} |-> inp[k]]
            req == [url |-> <<BITLY_API_BASE_URL, "/bitlinks/">>
                            \o encode_bitlink_for_url(normalize_bitlink(inp["bitlink"])),
                    method |-> "PATCH", json |-> body]
        IN  IF fetch.kind = "raise" THEN Done(<<req>>, Raised("Exception", fetch.err))
            ELSE Done(<<req>>, Returned([bitlink |-> fetch, result |-> TRUE])),
        [bitlink |-> EmptyMap])

GetBitlinkAction(inp, fetch) ==
    CaughtWith(
        IF ~Has(inp, "bitlink") THEN Done(<<>>, KeyError("bitlink"))
        ELSE
        LET req == [url |-> <<BITLY_API_BASE_URL, "/bitlinks/">>
                            \o encode_bitlink_for_url(normalize_bitlink(inp["bitlink"])),
                    method |-> "GET"]
        IN  IF fetch.kind = "raise" THEN Done(<<req>>, Raised("Exception", fetch.err))
            ELSE Done(<<req>>, Returned([bitlink |-> fetch, result |-> TRUE])),
        [bitlink |-> EmptyMap])

(***************************************************************************)
(* WhatsApp                                                                *)
(*                                                                         *)
(* A phone number is a sequence of characters.  Besides the ASCII digits   *)
(* the alphabet holds a decimal digit of another script, which \d of a str *)
(* pattern matches, and the newline, before which $ matches at the end.    *)
(***************************************************************************)
ArabicIndicThree == "ARABIC-INDIC DIGIT THREE"

\* re.match(r'^\+[1-9]\d{1,14}$', phone)
validate_phone_number(phone) ==
    LET matched == IF phone # <<>> /\ phone[Len(phone)] = "\n"
                   THEN SubSeq(phone, 1, Len(phone) - 1) ELSE phone
    IN  /\ Len(matched) \in 3..16
        /\ matched[1] = "+"
        /\ IsDigit(matched[2]) /\ matched[2] # "0"
        /\ \A i \in 3..Len(matched) : IsDigit(matched[i]) \/ matched[i] = ArabicIndicThree

\* url.startswith("https://"), on a URL given as its scheme and the rest
validate_media_url(url) == url # <<>> /\ Head(url) = "https://"

get_whatsapp_creds(auth) ==
    LET creds_source == Get(auth, "credentials", auth)
        names == <<"access_token", "accessToken", "token">>
        given == {i \in DOMAIN names : Get(creds_source, names[i], "") # ""}
    IN  IF given = {}
        THEN Raised("ValueError",
                    <<"Missing access_token in auth context. Available keys: ", DOMAIN auth>>)
        ELSE Returned([access_token |->
                           creds_source[names[CHOOSE i \in given : \A j \in given : i <= j]]])

\* to.lstrip('+')
RECURSIVE lstrip(_, _)
lstrip(s, c) == IF s # <<>> /\ Head(s) = c THEN lstrip(Tail(s), c) ELSE s

InvalidPhone ==
    [message_id |-> "", success |-> FALSE,
     error |-> <<"Invalid phone number format", ". Use format: +1234567890">>]

InvalidMediaUrl ==
    [message_id |-> "", success |-> FALSE,
     error |-> <<"Invalid media URL", ". Must be a publicly accessible HTTPS URL.">>]

\* the try block of the three send actions: credentials, the POST, the reading
\* of the response, and the except clause
Posted(what, auth, phone_number_id, payload, fetch) ==
    LET creds == get_whatsapp_creds(auth)
        req == [url |-> <<"https://graph.facebook.com/v18.0/", phone_number_id, "/messages">>,
                method |-> "POST",
                headers |-> [k \in {"Authorization", "Content-Type"} |->
                                IF k = "Authorization"
                                THEN <<"Bearer ", creds.data.access_token>>
                                ELSE <<"application/json">>],
                json |-> payload]
        Failed(e) == Returned([message_id |-> "", success |-> FALSE,
                               error |-> <<"Failed to send ", what, ": ">> \o e])
    IN  IF creds.kind = "raised" THEN Done(<<>>, Failed(creds.exc.message))
        ELSE IF fetch.kind = "raise" THEN Done(<<req>>, Failed(fetch.err))
        ELSE IF fetch.kind = "array"
        THEN Done(<<req>>, Failed(<<"'list' object has no attribute 'get'">>))
        ELSE IF Has(fetch.obj, "messages") /\ fetch.obj["messages"] # <<>>
        THEN Done(<<req>>, Returned([message_id |-> fetch.obj["messages"][1].id,
                                     success |-> TRUE]))
        ELSE Done(<<req>>,
                  Returned([message_id |-> "", success |-> FALSE,
                            error |-> <<Get(Get(fetch.obj, "error", EmptyMap), "message",
                                            "Unknown error")>>]))

\* inputs["k"] for the required inputs, in the order the handler reads them
FirstMissing(inp, required) ==
    LET missing == {i \in DOMAIN required : ~Has(inp, required[i])}
    IN  IF missing = {} THEN ""
        ELSE required[CHOOSE i \in missing : \A j \in missing : i <= j]

SendMessageAction(auth, inp, fetch) ==
    LET absent == FirstMissing(inp, <<"to", "message", "phone_number_id">>)
    IN  IF absent # "" THEN Done(<<>>, KeyError(absent))
        ELSE IF ~validate_phone_number(inp["to"]) THEN Done(<<>>, Returned(InvalidPhone))
        ELSE Posted("message", auth, inp["phone_number_id"],
                    [messaging_product |-> "whatsapp", to |-> lstrip(inp["to"], "+"),
                     type |-> "text", text |-> [body |-> inp["message"]]],
                    fetch)

SendTemplateMessageAction(auth, inp, fetch) ==
    LET absent == FirstMissing(inp, <<"to", "template_name", "phone_number_id">>)
        language_code == Get(inp, "language_code", "en")
        parameters == Get(inp, "parameters", <<>>)
        template == [name |-> inp["template_name"], language |-> [code |-> language_code]]
        components ==
            <<[type |-> "body",
               parameters |-> [i \in DOMAIN parameters |->
                                  [type |-> "text", text |-> parameters[i]]]]>>
    IN  IF absent # "" THEN Done(<<>>, KeyError(absent))
        ELSE IF ~validate_phone_number(inp["to"]) THEN Done(<<>>, Returned(InvalidPhone))
        ELSE Posted("template message", auth, inp["phone_number_id"],
                    [messaging_product |-> "whatsapp", to |-> lstrip(inp["to"], "+"),
                     type |-> "template",
                     template |-> IF parameters # <<>>
                                  THEN With(template, "components", components)
                                  ELSE template],
                    fetch)

SendMediaMessageAction(auth, inp, fetch) ==
    LET absent == FirstMissing(inp, <<"to", "media_type", "media_url", "phone_number_id">>)
        media_type == inp["media_type"]
        caption == Get(inp, "caption", "")
        filename == Get(inp, "filename", "")
        given == {"link"}
                 \cup (IF media_type = "document" /\ filename # "" THEN {"filename"} ELSE {})
                 \cup (IF caption # "" /\ media_type \in {"image", "video", "document"}
                       THEN {"caption"} ELSE {})
        media_object == [k \in given |->
                            CASE k = "link" -> inp["media_url"]
                              [] k = "filename" -> <<filename>>
                              [] k = "caption" -> <<caption>>]
    IN  IF absent # "" THEN Done(<<>>, KeyError(absent))
        ELSE IF ~validate_phone_number(inp["to"]) THEN Done(<<>>, Returned(InvalidPhone))
        ELSE IF ~validate_media_url(inp["media_url"])
        THEN Done(<<>>, Returned(InvalidMediaUrl))
        ELSE Posted("media message", auth, inp["phone_number_id"],
                    [k \in {"messaging_product", "to", "type", media_type} |->
                        CASE k = "messaging_product" -> <<"whatsapp">>
                          [] k = "to" -> lstrip(inp["to"], "+")
                          [] k = "type" -> <<media_type>>
                          [] k = media_type -> media_object],
                    fetch)

(***************************************************************************)
(* Typeform: the rate-limit advisory                                       *)
(***************************************************************************)
MAX_RATE_LIMIT_RETRIES == 3

can_retry_Inclusive(retry_attempt) == retry_attempt <= MAX_RATE_LIMIT_RETRIES

can_retry_Always(retry_attempt) == retry_attempt = retry_attempt

can_retry(retry_attempt) == retry_attempt < MAX_RATE_LIMIT_RETRIES

RetryInstructions_AlwaysRetry(retry_after_seconds, retry_attempt) ==
    <<Word("To retry: wait at least"), Code(retry_after_seconds),
      Word("seconds, then call this action again"),
      Word("with _retry_attempt="), Code(retry_attempt + 1), Word("."),
      Word("You have"), Code(MAX_RATE_LIMIT_RETRIES - retry_attempt),
      Word("retries remaining.")>>

\* the retry_instructions text of the two branches
RetryInstructions(retry_after_seconds, retry_attempt) ==
    IF can_retry(retry_attempt)
    THEN <<Word("To retry: wait at least"), Code(retry_after_seconds),
           Word("seconds, then call this action again"),
           Word("with _retry_attempt="), Code(retry_attempt + 1), Word("."),
           Word("You have"), Code(MAX_RATE_LIMIT_RETRIES - retry_attempt),
           Word("retries remaining.")>>
    ELSE <<Word("Maximum retries exceeded."), Word("Do not retry"),
           Word("automatically."),
           Word("Inform the user that the Typeform API rate limit has been reached.")>>

\* empty_data is the mapping given, or no mapping (None) when not given
create_rate_limit_response(retry_after_seconds, retry_attempt, action_name, empty_data) ==
    LET error_message ==
            IF can_retry(retry_attempt)
            THEN <<Word("Rate limit exceeded. Please wait"), Code(retry_after_seconds),
                   Word("seconds before retrying."), Word("This is attempt"),
                   Code(retry_attempt + 1), Word("of"), Code(MAX_RATE_LIMIT_RETRIES + 1),
                   Word("allowed attempts.")>>
            ELSE <<Word("Rate limit exceeded and maximum retry attempts ("),
                   Code(MAX_RATE_LIMIT_RETRIES), Word(") exhausted."),
                   Word("The Typeform API requires waiting"), Code(retry_after_seconds),
                   Word("seconds between requests."),
                   Word("Please try again later or reduce request frequency.")>>
        retry_instructions == RetryInstructions(retry_after_seconds, retry_attempt)
        response_data ==
            Merge([result |-> FALSE,
                   error |-> error_message,
                   error_type |-> "rate_limit",
                   retry_after_seconds |-> retry_after_seconds,
                   retry_attempt |-> retry_attempt,
                   max_retries |-> MAX_RATE_LIMIT_RETRIES,
                   can_retry |-> can_retry(retry_attempt),
                   retry_instructions |-> retry_instructions],
                  IF IsNone(empty_data) THEN EmptyMap ELSE empty_data)
    IN  Returned(IF action_name # "" THEN With(response_data, "action", action_name)
                 ELSE response_data)

(***************************************************************************)
(* Inputs and vendor behaviours the Humanitix handlers are exercised with. *)
(***************************************************************************)
HxInputs(ids) ==
    UNION {Sub(Merge(ids, [override_location |-> loc, page |-> p, page_size |-> ps,
                       since |-> "2025-01-01"])) :
           loc \in {"", "AU"}, p \in {1, 2}, ps \in {0, 10}}

\* success-shaped, error-shaped and check-in-shaped objects, bare arrays, a raise
HxBodies(key) ==
    UNION {{Body(o) : o \in Sub([k \in {key, "total", "page", "pageSize"} |->
                                    CASE k = key -> items
                                      [] k = "total" -> 50
                                      [] k = "page" -> 3
                                      [] k = "pageSize" -> 25])} : items \in ItemLists}
    \cup {Body([k \in {"statusCode"} \cup S |->
                    CASE k = "statusCode" -> 404
                      [] k = "error" -> "Not Found"
                      [] k = "message" -> "No such record"]) :
          S \in SUBSET {"error", "message"}}
    \cup {Body([scanningMessages |-> items]) : items \in ItemLists}
    \cup {Array(items) : items \in ItemLists}
    \cup {Raise(<<Code(503)>>)}

(***************************************************************************)
(* Inputs and vendor behaviours the Uber handlers are exercised with.      *)
(***************************************************************************)
Latitudes == {Num(-91), Num(-90), Num(90), Num(95), Str(<<"x">>)}
Longitudes == {Num(-181), Num(180), Num(200)}

PointInputs(latKey, lngKey) ==
    UNION {Sub([k \in {latKey, lngKey} |-> IF k = latKey THEN lat ELSE lng]) :
           lat \in Latitudes, lng \in Longitudes}

TripInputs ==
    {Merge(a, b) : a \in PointInputs("start_latitude", "start_longitude"),
                   b \in PointInputs("end_latitude", "end_longitude")}

ProductInputs ==
    {EmptyMap} \cup {[product_id |-> v] :
                     v \in {Str(<<" ", "p", "1">>), Str(<<"a", "/", "b">>), Num(7)}}

SeatInputs ==
    {EmptyMap} \cup {[seat_count |-> v] :
                     v \in {Num(-1), Num(0), Num(1), Num(2), Num(5), Str(<<"2">>)}}

ErrTokens ==
    {Code(n) : n \in {200, 400, 401, 404, 422, 429, 500, 503}}
    \cup {Word(w) : w \in {"Unauthorized", "too many requests", "rate limit",
                           "validation", "invalid", "not found", "timeout"}}

ErrStrings == UNION {[1..n -> ErrTokens] : n \in 0..MaxErrTokens}

UberFetches(full) ==
    {Body(EmptyMap), Body(full), Array(<<>>)} \cup {Raise(e) : e \in ErrStrings}

(***************************************************************************)
(* Inputs and vendor behaviours run_query is exercised with.               *)
(***************************************************************************)
BqInputs ==
    UNION {Sub([project_id |-> "proj", query |-> "SELECT 1", dry_run |-> dry,
                max_results |-> 10]) : dry \in BOOLEAN}

BqCell == [v |-> Str(<<"a">>)]
BqString == [name |-> "s", type |-> "STRING"]

\* a schema with the one row that the rows of a response repeat
BqTables ==
    {[schema |-> [fields |-> <<BqString>>], row |-> [f |-> <<BqCell>>]],
     [schema |-> [fields |-> <<BqString, [type |-> "STRING"]>>], row |-> [f |-> <<BqCell>>]],
     [schema |-> [fields |-> <<[name |-> "r", type |-> "RECORD", fields |-> <<BqString>>,
                                description |-> "a record"]>>],
      row |-> [f |-> <<[v |-> [f |-> <<BqCell>>]]>>]],
     [schema |-> [fields |-> <<[name |-> "xs", type |-> "STRING", mode |-> "REPEATED"]>>],
      row |-> [f |-> <<[v |-> List(<<BqCell, BqCell>>)]>>]],
     [schema |-> [fields |-> <<[name |-> "rs", type |-> "RECORD", mode |-> "REPEATED",
                                fields |-> <<BqString>>]>>],
      row |-> [f |-> <<[v |-> List(<<[v |-> [f |-> <<BqCell>>]], [v |-> None]>>)]>>]],
     [schema |-> [fields |-> <<[name |-> "r", type |-> "RECORD", fields |-> <<BqString>>]>>],
      row |-> [f |-> <<BqCell>>]],
     [schema |-> EmptyMap, row |-> [f |-> <<BqCell>>]]}

BqBodies ==
    UNION {{Body(Merge(o, [schema |-> t.schema, rows |-> [i \in 1..n |-> t.row]])) :
            o \in Sub([totalRows |-> total, totalBytesProcessed |-> Str(<<"1", "0", "2", "4">>),
                       jobComplete |-> TRUE, jobReference |-> [jobId |-> "job_1"],
                       pageToken |-> "tok"])} :
           t \in BqTables, n \in 0..MaxItems,
           total \in {Str(<<"4", "2">>), Str(<<"x">>), Str(<<>>)}}
    \cup {Body(EmptyMap), Array(<<>>), Raise(<<Code(403), Word("Forbidden")>>)}

(***************************************************************************)
(* Inputs and vendor behaviours get_post_status is exercised with.         *)
(***************************************************************************)
TkInputs == {EmptyMap} \cup {[publish_id |-> id] : id \in {"", "pub_1"}}

TkErrors ==
    {Text(""), Text("gateway failure")}
    \cup UNION {Sub([code |-> code, message |-> "spam risk", description |-> "too many posts",
                     log_id |-> "log_1"]) :
                code \in {"ok", "access_token_invalid", "rate_limit_exceeded",
                          "scope_not_authorized", "spam_risk_too_many_posts"}}

TkData == [status |-> "PUBLISH_COMPLETE", publicaly_available_post_id |-> ItemList(MaxItems),
           uploaded_bytes |-> 1024]

TkBodies ==
    UNION {{Body(o) : o \in Sub([error |-> error, data |-> data, message |-> message])} :
           error \in TkErrors, data \in {EmptyMap, TkData},
           message \in {"", "Success", "quota exhausted"}}
    \cup {Body(o) : o \in Sub([error_code |-> "40001", error_message |-> "bad request",
                               message |-> "failed", log_id |-> "log_2"])}
    \cup {Body([error_code |-> "", data |-> TkData])}
    \cup {Array(<<>>), Raise(<<Code(500)>>)}

(***************************************************************************)
(* Inputs and vendor behaviours the AWS actions are exercised with.        *)
(***************************************************************************)
Arns == <<"arn:finding/1", "arn:finding/2", "arn:finding/3">>

\* lists of identifiers, repetitions included
ArnLists == UNION {[1..n -> {Arns[i] : i \in DOMAIN Arns}] : n \in 0..MaxItems}

Finding(arn) == [Id |-> arn, ProductArn |-> "arn:product/securityhub"]

\* the findings with an identifier of found, in the vendor's order
FindingsOf(found) ==
    LET ids == SelectSeq(Arns, LAMBDA a : a \in found)
    IN  [i \in DOMAIN ids |-> Finding(ids[i])]

AwsFailures ==
    {Raise(<<Word("Could not connect to the endpoint URL")>>),
     ClientError("AccessDeniedException", <<Word("User is not authorized")>>)}

\* what get_findings answers to a lookup of arns: the findings of some of them
Lookups(arns) ==
    {Body([Findings |-> FindingsOf(found)]) : found \in SUBSET {arns[i] : i \in DOMAIN arns}}
    \cup {Body(EmptyMap), Body([Findings |-> <<[Id |-> Arns[1]]>>])}
    \cup AwsFailures

\* what batch_update_findings answers for the identifiers it is given: each of
\* them processed or unprocessed
Updates(findings) ==
    {Body([ProcessedFindings |->
               SelectSeq([i \in DOMAIN findings |-> [Id |-> findings[i]["Id"],
                                                    ProductArn |-> findings[i]["ProductArn"]]],
                         LAMBDA f : f["Id"] \in done),
           UnprocessedFindings |->
               SelectSeq([i \in DOMAIN findings |->
                             [FindingIdentifier |-> [Id |-> findings[i]["Id"],
                                                     ProductArn |-> findings[i]["ProductArn"]],
                              ErrorCode |-> "InvalidInput",
                              ErrorMessage |-> "Finding is archived"]],
                         LAMBDA u : u["FindingIdentifier"]["Id"] \notin done)]) :
     done \in SUBSET {findings[i]["Id"] : i \in DOMAIN findings}}
    \cup AwsFailures

InsightKinds ==
    {[InsightArn |-> "arn:insight/1", Name |-> "Open findings",
      Filters |-> [RecordState |-> "ACTIVE"], GroupByAttribute |-> "ResourceId"],
     [InsightArn |-> "arn:insight/2"],
     [Name |-> "Unnamed"]}

Tokens == {"", "token-1", "token-2"}

\* NextToken of a vendor response: one of the tokens, or none at all
Tokened(obj) == {obj} \cup {With(obj, "NextToken", t) : t \in Tokens \ {""}}

InsightPages ==
    {Body(page) : page \in UNION {Tokened([Insights |-> insights]) :
                           insights \in UNION {{l \in [1..n -> InsightKinds] :
                                                   \A i, j \in 1..n : l[i] = l[j] => i = j} :
                                               n \in 0..MaxItems}}}
    \cup {Body(EmptyMap)} \cup AwsFailures

InsightAnswers ==
    {Body([InsightResults |-> [InsightArn |-> "arn:insight/1",
                               ResultValues |-> <<[GroupByAttributeValue |-> "i-1",
                                                   Count |-> 2]>>]]),
     Body(EmptyMap)} \cup AwsFailures

InsightInputs ==
    UNION {Sub([max_results |-> 5, insight_arns |-> arns, next_token |-> t]) :
           arns \in {<<>>, <<"arn:insight/1">>}, t \in Tokens}

\* the elements of a Graph collection: the second one has a name only
GraphItems(keys, n) ==
    [i \in 1..n |-> [k \in (IF i = 2 THEN {"name"} ELSE keys) |-> k \o "-" \o ToString(i)]]

GraphAnswers(keys) ==
    {Body([value |-> GraphItems(keys, n)]) : n \in 0..MaxItems}
    \cup {Body(EmptyMap), Raise(<<Word("HTTP"), Code(404)>>)}

WorkbookFiles ==
    {Body([id |-> "wb-1", name |-> "Budget.xlsx", webUrl |-> "https://example/wb-1",
           lastModifiedDateTime |-> "2024-01-01T00:00:00Z"]),
     Body([id |-> "wb-1"]),
     Raise(<<Word("HTTP"), Code(404)>>)}

MaxChunks == 3

\* videos of 1 .. MaxChunks chunks of MIN_CHUNK_SIZE, the last chunk short or
\* full, one of a single byte and one above the limit
VideoSizes ==
    {(k - 1) * MIN_CHUNK_SIZE + 1048576 : k \in 1..MaxChunks}
    \cup {k * MIN_CHUNK_SIZE : k \in 1..MaxChunks}
    \cup {1, MAX_VIDEO_SIZE + 1}

VideoInputs ==
    UNION {Sub([file |-> [content |-> size], chunk_size |-> chunk_size]) :
           size \in VideoSizes \cup {0, Undecodable},
           chunk_size \in {1, MIN_CHUNK_SIZE, MAX_CHUNK_SIZE}}
    \cup {[files |-> <<[content |-> (MaxChunks - 1) * MIN_CHUNK_SIZE + 1048576]>>,
           chunk_size |-> MIN_CHUNK_SIZE, title |-> <<"c", "l", "i", "p">>,
           brand_content_toggle |-> TRUE],
          [file |-> EmptyMap, files |-> <<>>, title |-> <<>>]}

InitAnswers ==
    {Body([data |-> d, error |-> [code |-> "ok", message |-> "", log_id |-> "log_1"]]) :
         d \in Sub([publish_id |-> "pub_1", upload_url |-> "https://upload.example/v1"])}
    \cup {Body([data |-> EmptyMap,
                error |-> [code |-> "rate_limit_exceeded", message |-> "slow down",
                           log_id |-> "log_2"]]),
          Array(<<>>), Raise(<<Code(500)>>)}

ChunkAnswers ==
    {[kind |-> "status", status |-> status, text |-> ""] : status \in {200, 201, 206}}
    \cup {[kind |-> "status", status |-> 500, text |-> "upload rejected"],
          Raise(<<Word("Connection reset")>>)}

FormatSpecs ==
    Sub([font |-> [bold |-> TRUE], fill |-> [color |-> "#FFFF00"],
         horizontalAlignment |-> "Center", verticalAlignment |-> "Top",
         numberFormat |-> "0.00"])

FormatInputs ==
    {[workbook_id |-> "wb-1", worksheet_name |-> <<"Q", "1", " ", "/", "a">>,
      range |-> <<"A", "1", ":", "B", "2">>, format |-> format_spec] :
     format_spec \in FormatSpecs}
    \cup Sub([workbook_id |-> "wb-1", worksheet_name |-> <<"Q", "1">>,
              range |-> <<"S", "!", "A", "1">>, format |-> [font |-> [bold |-> TRUE]]])

(***************************************************************************)
(* Inputs and vendor behaviours of the list and query actions.             *)
(***************************************************************************)
DetectorInputs == UNION {Sub([max_results |-> 10, next_token |-> t]) : t \in Tokens}

DetectorPages ==
    {Body(page) : page \in UNION {Tokened([DetectorIds |-> ids]) :
                           ids \in {[i \in 1..n |-> "det-" \o ToString(i)] : n \in 0..MaxItems}}}
    \cup {Body(EmptyMap)} \cup AwsFailures

LogInputs ==
    UNION {Sub([log_group_name |-> "/app", log_stream_name |-> "main", limit |-> 10,
                start_time |-> start, next_token |-> t]) :
           start \in {"1970-01-01T00:00:01Z", "yesterday"}, t \in Tokens}
    \cup {[log_group_name |-> "/app", log_stream_name |-> "main", start_from_head |-> FALSE,
           start_time |-> "", end_time |-> "1970-01-01T00:00:02+00:00"]}

LogPages ==
    {Body(page) : page \in Sub([events |-> <<[timestamp |-> 1000, message |-> "started"]>>,
                                nextForwardToken |-> "token-1",
                                nextBackwardToken |-> "token-2"])}
    \cup AwsFailures

QueryInputs ==
    UNION {Sub([project_id |-> "proj", job_id |-> "job_1", max_results |-> m,
                page_token |-> t, start_index |-> 0]) : m \in {0, 10}, t \in Tokens}

QueryBodies ==
    UNION {{Body(Merge(o, [schema |-> [fields |-> <<BqString>>],
                           rows |-> [i \in 1..n |-> [f |-> <<BqCell>>]]])) :
            o \in Sub([totalRows |-> Str(<<"4", "2">>), jobComplete |-> TRUE,
                       pageToken |-> t])} :
           n \in 0..MaxItems, t \in Tokens}
    \cup {Body(EmptyMap), Array(<<>>), Raise(<<Code(403), Word("Forbidden")>>)}

DatasetInputs ==
    UNION {Sub([project_id |-> "proj", max_results |-> 10, page_token |-> t,
                filter |-> f, all |-> a]) :
           t \in Tokens, f \in {"", "labels.env:prod"}, a \in BOOLEAN}

DatasetBodies ==
    {Body(o) : o \in Sub([datasets |-> <<[id |-> "proj:sales",
                                          datasetReference |-> [datasetId |-> "sales",
                                                                projectId |-> "proj"],
                                          location |-> "US"],
                                         [id |-> "proj:raw"]>>,
                          nextPageToken |-> "token-1"])}
    \cup {Body([nextPageToken |-> ""]), Array(<<>>), Raise(<<Code(403), Word("Forbidden")>>)}

BitlinkInputs ==
    UNION {Sub([bitlink |-> link, title |-> title, tags |-> tags, archived |-> FALSE]) :
           link \in {<<"https://", "bit.ly", "/", "abc">>, <<"bit.ly", "/", "abc">>, <<"abc">>,
                     <<"http://", "bit.ly", "/", "abc", "?", "utm=1">>},
           title \in {"", "Launch"}, tags \in {<<>>, <<"news">>}}

BitlinkAnswers ==
    {Body([id |-> "bit.ly/abc", title |-> "Launch"]), Raise(<<Code(404), Word("NOT_FOUND")>>)}

TkUsers ==
    {[open_id |-> Str(<<"u", "1">>), union_id |-> Str(<<"n", "1">>),
      avatar_url |-> Str(<<"a">>), avatar_url_100 |-> Str(<<"b">>),
      avatar_large_url |-> Str(<<"c">>), display_name |-> Str(<<"C", "r">>),
      bio_description |-> Str(<<"h", "i">>), profile_deep_link |-> Str(<<"l">>),
      is_verified |-> Bool(TRUE), follower_count |-> Num(10), following_count |-> Num(2),
      likes_count |-> Num(30), video_count |-> Num(4)],
     [open_id |-> Str(<<"u", "1">>)],
     [open_id |-> Str(<<"u", "1">>), display_name |-> None, follower_count |-> None],
     EmptyMap}

UserInfoBodies ==
    {Body([data |-> [user |-> user],
           error |-> [code |-> "ok", message |-> "", log_id |-> "log_1"]]) : user \in TkUsers}
    \cup {Body([data |-> user]) : user \in TkUsers}
    \cup {Body([data |-> EmptyMap,
                error |-> [code |-> "access_token_invalid", message |-> "expired",
                           log_id |-> "log_2"]]),
          Array(<<>>), Raise(<<Code(500)>>)}

RideIds ==
    {Str(<<"r", "1">>), Str(<<" ", "r", "-", "1", " ">>), Str(<<"a", ".", "b">>),
     Str(<<>>), Str(<<" ">>), Num(7),
     Str(<<"a", "/", "b">>), Str(<<"a", "\\", "b">>), Str(<<".", ".">>),
     Str(<<"r", "?", "x">>), Str(<<"r", "&", "x">>), Str(<<"r", "#">>),
     Str(<<"%", "2", "F">>), Str(<<" ", ".", ".", "/", "m", "e">>)}

RideInputs == {EmptyMap} \cup {[request_id |-> v] : v \in RideIds}

RideFetches ==
    {Body(EmptyMap), Body([href |-> Str(<<"m">>), status |-> Str(<<"o", "k">>)]),
     Array(<<>>), Raise(<<Code(404)>>), Raise(<<Code(429)>>),
     Raise(<<Word("timeout")>>)}

Phones ==
    {<<"+", "1", "2", "3", "4", "5", "6", "7", "8", "9", "0">>, <<"+", "1", "2">>,
     <<"+", "1", "2", "3", "4", "5", "6", "7", "8", "9", "0", "1", "2", "3", "4", "5">>,
     <<"+", "1", "2", "3", "4", "5", "6", "7", "8", "9", "0", "1", "2", "3", "4", "5", "6">>,
     <<"+", "1">>, <<"+">>, <<>>, <<"1", "2", "3">>, <<"i", "n", "v">>,
     <<"+", "0", "1", "2", "3">>, <<"1", "2", "3", "4", "5", "6", "7", "8", "9", "0">>,
     <<"+", "1", "2", "a">>, <<" ", "+", "1", "2", "3">>, <<"+", "1", "2", " ">>,
     <<"+", "+", "1", "2", "3">>, <<"+", "1", "2", "\n">>, <<"+", "1", "2", "\n", "3">>,
     <<"+", "1", "2", ArabicIndicThree>>}

MediaUrls ==
    {<<"https://", "example.com/image.png">>, <<"http://", "example.com/image.png">>,
     <<"ftp://", "example.com/image.png">>, <<"/local/path/image.png">>,
     <<"HTTPS://", "example.com/image.png">>, <<>>}

Auths ==
    {[access_token |-> "tok"], [credentials |-> [accessToken |-> "tok"]], EmptyMap}

WaAnswers ==
    {Body([messages |-> <<[id |-> "wamid.1"]>>]), Body([messages |-> <<>>]),
     Body([error |-> [message |-> "Recipient not on WhatsApp"]]), Body(EmptyMap),
     Array(<<>>), Raise(<<Code(401)>>)}

SendMessageInputs ==
    {[to |-> to, message |-> "hi", phone_number_id |-> "pn1"] : to \in Phones}
    \cup {[to |-> <<"+", "1", "2">>, message |-> "hi"], [message |-> "hi"]}

SendTemplateInputs ==
    UNION {{[to |-> to, template_name |-> "hello_world", phone_number_id |-> "pn1"],
            [to |-> to, template_name |-> "hello_world", phone_number_id |-> "pn1",
             language_code |-> "fr", parameters |-> <<"Ada">>]} : to \in Phones}

SendMediaInputs ==
    UNION {{[to |-> to, media_type |-> "image", media_url |-> url,
             phone_number_id |-> "pn1"],
            [to |-> to, media_type |-> "document", media_url |-> url,
             phone_number_id |-> "pn1", caption |-> "c", filename |-> "f.pdf"]} :
           to \in Phones, url \in MediaUrls}

\* requested chunk sizes and video lengths around the limits, in bytes
ChunkSizes ==
    {-1, 0, 1, 1024, MIN_CHUNK_SIZE - 1, MIN_CHUNK_SIZE, MIN_CHUNK_SIZE + 1,
     DEFAULT_CHUNK_SIZE,
     MAX_CHUNK_SIZE - 1, MAX_CHUNK_SIZE, MAX_CHUNK_SIZE + 1, 104857600}

VideoLengths ==
    {1, 1024, 1048576, MIN_CHUNK_SIZE - 1, MIN_CHUNK_SIZE, MIN_CHUNK_SIZE + 1,
     2 * MIN_CHUNK_SIZE, 52428800, MAX_CHUNK_SIZE, MAX_CHUNK_SIZE + 1, 104857600,
     MAX_VIDEO_SIZE}

\* vendor responses in the three error formats of the TikTok API, and mixed
CheckedResponses ==
    UNION {Sub([error_code |-> error_code, error |-> error, data |-> data,
                message |-> message]) :
           error_code \in {"", "40001"},
           error \in {Text(""), Text("gateway failure"), EmptyMap,
                      [code |-> "ok", message |-> "", log_id |-> "log_1"],
                      [code |-> "rate_limit_exceeded", message |-> "slow down",
                       log_id |-> "log_2"],
                      [code |-> "spam_risk_too_many_posts"],
                      [message |-> "no code given"]},
           data \in {EmptyMap, TkData},
           message \in {"", "Success", "ok", "quota exhausted"}}

\* schemas with a row each: those of BqTables, a record within a record, null
\* and empty values of record and repeated fields, and a schema of no fields
ParseTables ==
    BqTables
    \cup {[schema |-> [fields |-> <<[name |-> "o", type |-> "RECORD",
                                     fields |-> <<[name |-> "r", type |-> "RECORD",
                                                   fields |-> <<BqString,
                                                                [name |-> "xs",
                                                                 type |-> "STRING",
                                                                 mode |-> "REPEATED"]>>],
                                                  BqString>>]>>],
           row |-> [f |-> <<[v |-> [f |-> <<[v |-> [f |-> <<BqCell,
                                                          [v |-> List(<<BqCell>>)]>>]]>>]]>>]],
          [schema |-> [fields |-> <<[name |-> "r", type |-> "RECORD",
                                     fields |-> <<BqString>>],
                                    [name |-> "xs", type |-> "STRING", mode |-> "REPEATED"],
                                    [name |-> "rs", type |-> "RECORD", mode |-> "REPEATED",
                                     fields |-> <<BqString>>]>>],
           row |-> [f |-> <<[v |-> None], [v |-> List(<<>>)], [v |-> None]>>]],
          [schema |-> [fields |-> <<>>], row |-> [f |-> <<>>]]}

ParseInputs ==
    UNION {{[schema |-> t.schema, rows |-> rows] :
            rows \in UNION {[1..n -> {t.row, [f |-> <<>>], EmptyMap}] : n \in 0..MaxItems}} :
           t \in ParseTables}

TableHeaders == <<"A", "B", "C">>

\* rows of a table of three columns, complete or cut short
TableRow(r, n) == [i \in 1..n |-> Str(<<TableHeaders[i], ToString(r)>>)]

TableRows ==
    UNION {{[r \in 1..n |-> TableRow(r, lengths[r])] : lengths \in [1..n -> 0..3]} :
           n \in 0..MaxItems}

TableInputs ==
    UNION {Sub([workbook_id |-> "wb-1", table_name |-> <<"T", " ", "1">>,
                select_columns |-> columns, skip |-> skip, top |-> top]) :
           columns \in {<<"A">>, <<"C", "A">>, <<"B", "C">>, <<"A", "B", "C">>, <<"Z", "A">>},
           skip \in {0, 1}, top \in {0, 1}}
    \cup {[workbook_id |-> "wb-1", table_name |-> <<"T", " ", "1">>, max_rows |-> 1],
          [workbook_id |-> "wb-1", table_name |-> <<"T", " ", "1">>, max_rows |-> 0,
           select_columns |-> <<"C">>]}

HeaderAnswers ==
    {Body([values |-> <<TableHeaders>>]), Body(EmptyMap), Body([values |-> <<>>]),
     Array(<<>>), Raise(<<Word("HTTP"), Code(404)>>)}

RowAnswers ==
    {Body([values |-> rows]) : rows \in TableRows}
    \cup {Body(EmptyMap), Array(<<>>), Raise(<<Word("HTTP"), Code(404)>>)}

MaxBitlinkParts == 3

\* bitlinks in every form: a scheme or none, then up to MaxBitlinkParts parts
BitlinkRests ==
    UNION {[1..n -> {"bit.ly", "/", "abc", "?", "utm=1"}] : n \in 0..MaxBitlinkParts}

Bitlinks ==
    {scheme \o rest : scheme \in {<<>>, <<"http://">>, <<"https://">>}, rest \in BitlinkRests}

GetBitlinkInputs == {[bitlink |-> link] : link \in Bitlinks} \cup {EmptyMap}

Init ==
    /\ action = "none"
    /\ inputs = EmptyMap
    /\ requests = <<>>
    /\ responses = <<>>
    /\ outcome = [kind |-> "none"]

Idle == outcome.kind = "none"

\* the state after an invocation: r is what execute did with the fetch behaviour
Invoked(name, inp, fetch, r) ==
    /\ action' = name
    /\ inputs' = inp
    /\ requests' = r.requests
    /\ responses' = IF r.requests = <<>> THEN <<>> ELSE <<fetch>>
    /\ outcome' = r.outcome

\* one invocation of execute with inputs inp, where the fetch primitive behaves in
\* one of the ways of fetches if execute gets as far as calling it
Invoke(name, inp, fetches, execute(_, _)) ==
    IF execute(inp, Raise(<<>>)).requests = <<>>
    THEN Invoked(name, inp, Raise(<<>>), execute(inp, Raise(<<>>)))
    ELSE \E fetch \in fetches : Invoked(name, inp, fetch, execute(inp, fetch))

\* the caller takes the result; nothing of the invocation is kept
finish ==
    /\ ~Idle
    /\ action' = "none"
    /\ inputs' = EmptyMap
    /\ requests' = <<>>
    /\ responses' = <<>>
    /\ outcome' = [kind |-> "none"]

get_events ==
    /\ Idle
    /\ \E inp \in HxInputs([event_id |-> "evt_001"]) :
        Invoke("get_events", inp, HxBodies("events"), GetEventsAction)

get_orders ==
    /\ Idle
    /\ \E inp \in HxInputs([event_id |-> "evt_001", order_id |-> "ord_001",
                         event_date_id |-> "date_001"]) :
        Invoke("get_orders", inp, HxBodies("orders"), GetOrdersAction)

get_tickets ==
    /\ Idle
    /\ \E inp \in HxInputs([event_id |-> "evt_001", ticket_id |-> "tkt_001",
                         event_date_id |-> "date_001", status |-> "complete"]) :
        Invoke("get_tickets", inp, HxBodies("tickets"), GetTicketsAction)

get_tags ==
    /\ Idle
    /\ \E inp \in HxInputs([tag_id |-> "tag_001"]) :
        Invoke("get_tags", inp, HxBodies("tags"), GetTagsAction)

check_in ==
    /\ Idle
    /\ \E inp \in HxInputs([event_id |-> "evt_001", ticket_id |-> "tkt_001"]) :
        Invoke("check_in", inp, HxBodies("scanningMessages"), CheckInAction)

check_out ==
    /\ Idle
    /\ \E inp \in HxInputs([event_id |-> "evt_001", ticket_id |-> "tkt_001"]) :
        Invoke("check_out", inp, HxBodies("scanningMessages"), CheckOutAction)

GetProducts(inp, fetch) ==
    handle_uber_errors("get_products", GetProductsAction(inp, fetch))

GetPriceEstimate(inp, fetch) ==
    handle_uber_errors("get_price_estimate", GetPriceEstimateAction(inp, fetch))

GetTimeEstimate(inp, fetch) ==
    handle_uber_errors("get_time_estimate", GetTimeEstimateAction(inp, fetch))

GetRideEstimate(inp, fetch) ==
    handle_uber_errors("get_ride_estimate", GetRideEstimateAction(inp, fetch))

RequestRide(inp, fetch) ==
    handle_uber_errors("request_ride", RequestRideAction(inp, fetch))

get_products ==
    /\ Idle
    /\ \E inp \in PointInputs("latitude", "longitude") :
        Invoke("get_products", inp,
               UberFetches([products |-> ItemList(MaxItems)]), GetProducts)

get_price_estimate ==
    /\ Idle
    /\ \E a \in TripInputs, b \in SeatInputs :
        Invoke("get_price_estimate", Merge(a, b),
               UberFetches([prices |-> ItemList(MaxItems)]), GetPriceEstimate)

get_time_estimate ==
    /\ Idle
    /\ \E a \in PointInputs("start_latitude", "start_longitude"), b \in ProductInputs :
        Invoke("get_time_estimate", Merge(a, b),
               UberFetches([times |-> ItemList(MaxItems)]), GetTimeEstimate)

get_ride_estimate ==
    /\ Idle
    /\ \E a \in TripInputs, b \in ProductInputs, c \in SeatInputs :
        Invoke("get_ride_estimate", Merge(a, Merge(b, c)),
               UberFetches([fare |-> ItemList(1)]), GetRideEstimate)

request_ride ==
    /\ Idle
    /\ \E a \in TripInputs, b \in ProductInputs, c \in SeatInputs,
          d \in {EmptyMap, [fare_id |-> Str(<<"f", "1", " ">>)], [fare_id |-> Str(<<>>)]} :
        Invoke("request_ride", Merge(a, Merge(b, Merge(c, d))),
               UberFetches([request_id |-> Str(<<"r", "1">>), status |-> Str(<<"o", "k">>)]),
               RequestRide)

NextUber ==
    \/ get_products
    \/ get_price_estimate
    \/ get_time_estimate
    \/ get_ride_estimate
    \/ request_ride
    \/ finish

SpecUber == Init /\ [][NextUber]_vars

\* a call of the advisory builder; retry_attempt and action_name and empty_data
\* take their defaults when the caller leaves them out
rate_limit_response ==
    /\ Idle
    /\ \E inp \in UNION {Sub([retry_after_seconds |-> Num(after),
                              retry_attempt |-> Num(attempt),
                              action_name |-> name,
                              empty_data |-> empty]) :
                         after \in {0, 37, 60}, attempt \in -1..MaxRetryAttempt,
                         name \in {"", "list_forms"},
                         empty \in {EmptyMap, [forms |-> <<>>, total_items |-> 0],
                                    [retry_attempt |-> 99, can_retry |-> TRUE]}} :
        /\ "retry_after_seconds" \in DOMAIN inp
        /\ Invoked("create_rate_limit_response", inp, Raise(<<>>),
                   Done(<<>>, create_rate_limit_response(
                                  inp["retry_after_seconds"].num,
                                  Get(inp, "retry_attempt", Num(0)).num,
                                  Get(inp, "action_name", ""),
                                  Get(inp, "empty_data", None))))

NextAdvisory ==
    \/ rate_limit_response
    \/ finish

SpecAdvisory == Init /\ [][NextAdvisory]_vars

run_query ==
    /\ Idle
    /\ \E inp \in BqInputs : Invoke("run_query", inp, BqBodies, RunQueryAction)

NextBigQuery ==
    \/ run_query
    \/ finish

SpecBigQuery == Init /\ [][NextBigQuery]_vars

get_post_status ==
    /\ Idle
    /\ \E inp \in TkInputs : Invoke("get_post_status", inp, TkBodies, GetPostStatusHandler)

NextTikTok ==
    \/ get_post_status
    \/ finish

SpecTikTok == Init /\ [][NextTikTok]_vars

\* the state after an invocation that was given a script: the vendor behaviours
\* it used are those of the calls it made
Ran(name, inp, script, r) ==
    /\ action' = name
    /\ inputs' = inp
    /\ requests' = r.requests
    /\ responses' = SubSeq(script, 1, Len(r.requests))
    /\ outcome' = r.outcome

update_finding_workflow ==
    /\ Idle
    /\ \E arns \in ArnLists, note \in {"", "reviewed"} :
       \E inp \in Sub([finding_arns |-> arns, workflow_status |-> "RESOLVED", note |-> note]),
          lookup \in Lookups(arns) :
       \E update \in Updates(IF lookup.kind = "object" /\ Has(lookup.obj, "Findings")
                                 /\ \A i \in DOMAIN lookup.obj["Findings"] :
                                       Has(lookup.obj["Findings"][i], "ProductArn")
                             THEN lookup.obj["Findings"] ELSE <<>>) :
          Ran("update_finding_workflow", inp, <<lookup, update>>,
              UpdateFindingWorkflowAction(inp, <<lookup, update>>))

archive_findings ==
    /\ Idle
    /\ \E ids \in ArnLists :
       \E inp \in Sub([detector_id |-> "det-1", finding_ids |-> ids]),
          answer \in {Body(EmptyMap)} \cup AwsFailures :
          Ran("archive_findings", inp, <<answer>>, ArchiveFindingsAction(inp, <<answer>>))

get_insights ==
    /\ Idle
    /\ \E inp \in InsightInputs, primary \in InsightPages :
       \E answers \in [1..MaxItems -> InsightAnswers] :
          Ran("get_insights", inp, <<primary>> \o answers,
              GetInsightsAction(inp, <<primary>> \o answers))

excel_get_workbook ==
    /\ Idle
    /\ \E inp \in Sub([workbook_id |-> "wb-1"]), file \in WorkbookFiles,
          ws \in GraphAnswers({"id", "name", "position", "visibility"}),
          tables \in GraphAnswers({"id", "name", "showHeaders", "showTotals", "style"}),
          names \in GraphAnswers({"name", "value", "type"}) :
          Ran("excel_get_workbook", inp, <<file, ws, tables, names>>,
              GetWorkbook(inp, <<file, ws, tables, names>>))

NextAws ==
    \/ update_finding_workflow
    \/ archive_findings
    \/ get_insights
    \/ finish

SpecAws == Init /\ [][NextAws]_vars

excel_format_range ==
    /\ Idle
    /\ \E inp \in FormatInputs :
       \E answers \in [1..4 -> {Body(EmptyMap), Raise(<<Word("HTTP"), Code(400)>>)}] :
          Ran("excel_format_range", inp, answers, FormatRange(inp, answers))

NextExcel ==
    \/ excel_get_workbook
    \/ excel_format_range
    \/ finish

SpecExcel == Init /\ [][NextExcel]_vars

NextSecondary ==
    \/ get_insights
    \/ excel_get_workbook
    \/ finish

SpecSecondary == Init /\ [][NextSecondary]_vars

create_video_post ==
    /\ Idle
    /\ \E inp \in VideoInputs, init \in InitAnswers :
       \E chunks \in [1..MaxChunks -> ChunkAnswers] :
          Ran("create_video_post", inp, <<init>> \o chunks,
              CreateVideoPostHandler(inp, <<init>> \o chunks))

upload_video_draft ==
    /\ Idle
    /\ \E inp \in VideoInputs, init \in InitAnswers :
       \E chunks \in [1..MaxChunks -> ChunkAnswers] :
          Ran("upload_video_draft", inp, <<init>> \o chunks,
              UploadVideoDraftHandler(inp, <<init>> \o chunks))

NextUpload ==
    \/ create_video_post
    \/ upload_video_draft
    \/ finish

SpecUpload == Init /\ [][NextUpload]_vars

\* the names of the pagination token of a list or query action: in the inputs,
\* in the request, in the vendor response and in the output
Paging ==
    [a \in {"list_detectors", "get_log_events", "get_query_results", "list_datasets"} |->
        CASE a = "list_detectors" ->
                 [input |-> "next_token", sent |-> "NextToken", received |-> "NextToken",
                  output |-> "next_token"]
          [] a = "get_log_events" ->
                 [input |-> "next_token", sent |-> "nextToken",
                  received |-> "nextForwardToken", output |-> "next_forward_token"]
          [] a = "get_query_results" ->
                 [input |-> "page_token", sent |-> "pageToken", received |-> "pageToken",
                  output |-> "page_token"]
          [] a = "list_datasets" ->
                 [input |-> "page_token", sent |-> "pageToken", received |-> "nextPageToken",
                  output |-> "next_page_token"]]

\* one invocation of the list or query action a with inputs inp
Listing(a, inp) ==
    CASE a = "list_detectors" ->
             \E page \in DetectorPages : Ran(a, inp, <<page>>, ListDetectorsAction(inp, <<page>>))
      [] a = "get_log_events" ->
             \E page \in LogPages : Ran(a, inp, <<page>>, GetLogEventsAction(inp, <<page>>))
      [] a = "get_query_results" -> Invoke(a, inp, QueryBodies, GetQueryResultsAction)
      [] a = "list_datasets" -> Invoke(a, inp, DatasetBodies, ListDatasetsAction)

list_detectors == Idle /\ \E inp \in DetectorInputs : Listing("list_detectors", inp)

get_log_events == Idle /\ \E inp \in LogInputs : Listing("get_log_events", inp)

get_query_results == Idle /\ \E inp \in QueryInputs : Listing("get_query_results", inp)

list_datasets == Idle /\ \E inp \in DatasetInputs : Listing("list_datasets", inp)

\* the caller asks for the next page: the same action again, with the token of
\* the output as its token input
next_page ==
    /\ ~Idle
    /\ action \in DOMAIN Paging
    /\ outcome.kind = "returned"
    /\ outcome.data["result"] = TRUE
    /\ Get(responses[1].obj, Paging[action].received, "") # ""
    /\ Listing(action, With(inputs, Paging[action].input, outcome.data[Paging[action].output]))

update_bitlink ==
    /\ Idle
    /\ \E inp \in BitlinkInputs :
          Invoke("update_bitlink", inp, BitlinkAnswers, UpdateBitlinkAction)

get_user_info ==
    /\ Idle
    /\ Invoke("get_user_info", EmptyMap, UserInfoBodies, GetUserInfoHandler)

NextDefaults ==
    \/ get_user_info
    \/ request_ride
    \/ finish

SpecDefaults == Init /\ [][NextDefaults]_vars

get_ride_status ==
    /\ Idle
    /\ \E inp \in RideInputs :
        Invoke("get_ride_status", inp, RideFetches,
               LAMBDA i, f : handle_uber_errors("get_ride_status",
                                                GetRideStatusAction(i, f)))

get_ride_map ==
    /\ Idle
    /\ \E inp \in RideInputs :
        Invoke("get_ride_map", inp, RideFetches,
               LAMBDA i, f : handle_uber_errors("get_ride_map", GetRideMapAction(i, f)))

cancel_ride ==
    /\ Idle
    /\ \E inp \in RideInputs :
        Invoke("cancel_ride", inp, RideFetches,
               LAMBDA i, f : handle_uber_errors("cancel_ride", CancelRideAction(i, f)))

get_ride_receipt ==
    /\ Idle
    /\ \E inp \in RideInputs :
        Invoke("get_ride_receipt", inp, RideFetches,
               LAMBDA i, f : handle_uber_errors("get_ride_receipt",
                                                GetRideReceiptAction(i, f)))

NextRides ==
    \/ get_ride_status
    \/ get_ride_map
    \/ cancel_ride
    \/ get_ride_receipt
    \/ finish

SpecRides == Init /\ [][NextRides]_vars

\* execute of the read-only action a
ReadOnly(a, inp, fetch) ==
    CASE a = "get_events" -> GetEventsAction(inp, fetch)
      [] a = "get_orders" -> GetOrdersAction(inp, fetch)
      [] a = "get_tickets" -> GetTicketsAction(inp, fetch)
      [] a = "get_tags" -> GetTagsAction(inp, fetch)
      [] a = "get_query_results" -> GetQueryResultsAction(inp, fetch)
      [] a = "list_datasets" -> ListDatasetsAction(inp, fetch)
      [] a = "get_user_info" -> GetUserInfoHandler(inp, fetch)

ReadActions ==
    {"get_events", "get_orders", "get_tickets", "get_tags", "get_query_results",
     "list_datasets", "get_user_info"}

\* the caller invokes the read-only action it has just called once more, with the
\* same inputs, and the vendor answers as before; the handler classes hold no
\* fields and the modules no variables, so execute starts from nothing but these
call_again ==
    /\ ~Idle
    /\ action \in ReadActions
    /\ LET fetch == IF responses = <<>> THEN Raise(<<>>) ELSE responses[1]
       IN  Invoked(action, inputs, fetch, ReadOnly(action, inputs, fetch))

NextReads ==
    \/ get_events
    \/ get_orders
    \/ get_tickets
    \/ get_tags
    \/ get_query_results
    \/ list_datasets
    \/ get_user_info
    \/ call_again
    \/ finish

SpecReads == Init /\ [][NextReads]_vars

send_message ==
    /\ Idle
    /\ \E inp \in SendMessageInputs, auth \in Auths :
        Invoke("send_message", inp, WaAnswers,
               LAMBDA i, f : SendMessageAction(auth, i, f))

send_template_message ==
    /\ Idle
    /\ \E inp \in SendTemplateInputs, auth \in Auths :
        Invoke("send_template_message", inp, WaAnswers,
               LAMBDA i, f : SendTemplateMessageAction(auth, i, f))

send_media_message ==
    /\ Idle
    /\ \E inp \in SendMediaInputs, auth \in Auths :
        Invoke("send_media_message", inp, WaAnswers,
               LAMBDA i, f : SendMediaMessageAction(auth, i, f))

NextWhatsApp ==
    \/ send_message
    \/ send_template_message
    \/ send_media_message
    \/ finish

SpecWhatsApp == Init /\ [][NextWhatsApp]_vars

\* a call of _validate_chunk_size, as the upload handlers make it once the video
\* is decoded
validate_chunk_size ==
    /\ Idle
    /\ \E chunk_size \in ChunkSizes, video_size \in VideoLengths :
        /\ action' = "_validate_chunk_size"
        /\ inputs' = [chunk_size |-> chunk_size, video_size |-> video_size]
        /\ requests' = <<>>
        /\ responses' = <<>>
        /\ outcome' = Returned([chunk_size |-> _validate_chunk_size(chunk_size, video_size)])

NextChunkSize ==
    \/ validate_chunk_size
    \/ finish

SpecChunkSize == Init /\ [][NextChunkSize]_vars

\* a call of _check_api_response on a response of the vendor
check_api_response ==
    /\ Idle
    /\ \E response \in CheckedResponses :
        LET checked == _check_api_response(response)
        IN  /\ action' = "_check_api_response"
            /\ inputs' = response
            /\ requests' = <<>>
            /\ responses' = <<>>
            /\ outcome' = IF checked.kind = "raised" THEN checked
                          ELSE Returned(checked.value)

NextChecked ==
    \/ check_api_response
    \/ finish

SpecChecked == Init /\ [][NextChecked]_vars

\* a call of parse_rows; nothing in it assigns to the schema, the rows or their
\* parts, which are left as they were passed
parse_query_rows ==
    /\ Idle
    /\ \E inp \in ParseInputs :
        LET parsed == parse_rows(inp.schema, inp.rows)
        IN  /\ action' = "parse_rows"
            /\ inputs' = inp
            /\ requests' = <<>>
            /\ responses' = <<>>
            /\ outcome' = IF parsed.kind = "raised" THEN parsed
                          ELSE Returned(parsed.value)

NextParse ==
    \/ parse_query_rows
    \/ finish

SpecParse == Init /\ [][NextParse]_vars

\* a caller that follows the advisory: a first call with retry_attempt 0 that is
\* rate limited, ...
RateLimited(inp) ==
    Invoked("create_rate_limit_response", inp, Raise(<<>>),
            Done(<<>>, create_rate_limit_response(inp["retry_after_seconds"].num,
                                                  inp["retry_attempt"].num,
                                                  inp["action_name"],
                                                  inp["empty_data"])))

first_call ==
    /\ Idle
    /\ \E after \in {0, 1, 30, 37, 60}, name \in {"", "list_forms"},
          empty \in {EmptyMap, [forms |-> <<>>, total_items |-> 0],
                     [retry_attempt |-> 99, can_retry |-> TRUE]} :
        RateLimited([retry_after_seconds |-> Num(after), retry_attempt |-> Num(0),
                     action_name |-> name, empty_data |-> empty])

\* ... the same call again with retry_attempt + 1 while the advisory says
\* can_retry, rate limited every time, ...
retry_call ==
    /\ action = "create_rate_limit_response"
    /\ outcome.kind = "returned"
    /\ DOMAIN inputs = {"retry_after_seconds", "retry_attempt", "action_name", "empty_data"}
    /\ outcome.data["can_retry"] = TRUE
    /\ outcome.data["retry_attempt"] < MaxRetryAttempt
    /\ RateLimited(With(inputs, "retry_attempt", Num(outcome.data["retry_attempt"] + 1)))

\* ... and no further call once the advisory says can_retry is false
stop_retrying ==
    /\ action = "create_rate_limit_response"
    /\ outcome.kind = "returned"
    /\ outcome.data["can_retry"] = FALSE
    /\ finish

NextRetry ==
    \/ first_call
    \/ retry_call
    \/ stop_retrying

SpecRetry == Init /\ [][NextRetry]_vars /\ WF_vars(retry_call)

excel_get_table_data ==
    /\ Idle
    /\ \E inp \in TableInputs, header \in HeaderAnswers, rows \in RowAnswers :
          Ran("excel_get_table_data", inp, <<header, rows>>,
              GetTableData(inp, <<header, rows>>))

NextTable ==
    \/ excel_get_table_data
    \/ finish

SpecTable == Init /\ [][NextTable]_vars

get_bitlink ==
    /\ Idle
    /\ \E inp \in GetBitlinkInputs :
          Invoke("get_bitlink", inp, BitlinkAnswers, GetBitlinkAction)

\* normalize_bitlink applied to one bitlink
normalize ==
    /\ Idle
    /\ \E bitlink \in Bitlinks :
          /\ action' = "normalize_bitlink"
          /\ inputs' = [bitlink |-> bitlink]
          /\ outcome' = Returned([bitlink |-> normalize_bitlink(bitlink)])
          /\ UNCHANGED <<requests, responses>>

NextBitlink ==
    \/ get_bitlink
    \/ normalize
    \/ finish

SpecBitlink == Init /\ [][NextBitlink]_vars

NextOptional ==
    \/ request_ride
    \/ update_bitlink
    \/ list_datasets
    \/ get_query_results
    \/ finish

SpecOptional == Init /\ [][NextOptional]_vars

NextPaging ==
    \/ list_detectors
    \/ get_log_events
    \/ get_query_results
    \/ list_datasets
    \/ next_page
    \/ finish

SpecPaging == Init /\ [][NextPaging]_vars

NextHumanitix ==
    \/ get_events
    \/ get_orders
    \/ get_tickets
    \/ get_tags
    \/ check_in
    \/ check_out
    \/ finish

SpecHumanitix == Init /\ [][NextHumanitix]_vars

Next ==
    \/ get_events
    \/ get_orders
    \/ get_tickets
    \/ get_tags
    \/ check_in
    \/ check_out
    \/ get_products
    \/ get_price_estimate
    \/ get_time_estimate
    \/ get_ride_estimate
    \/ request_ride
    \/ run_query
    \/ get_post_status
    \/ rate_limit_response
    \/ update_finding_workflow
    \/ archive_findings
    \/ get_insights
    \/ excel_get_workbook
    \/ create_video_post
    \/ upload_video_draft
    \/ excel_format_range
    \/ list_detectors
    \/ get_log_events
    \/ get_query_results
    \/ list_datasets
    \/ next_page
    \/ update_bitlink
    \/ get_user_info
    \/ get_ride_status
    \/ get_ride_map
    \/ cancel_ride
    \/ get_ride_receipt
    \/ call_again
    \/ send_message
    \/ send_template_message
    \/ send_media_message
    \/ validate_chunk_size
    \/ check_api_response
    \/ parse_query_rows
    \/ first_call
    \/ retry_call
    \/ stop_retrying
    \/ excel_get_table_data
    \/ get_bitlink
    \/ normalize
    \/ finish

Spec == Init /\ [][Next]_vars
(***************************************************************************)
(* Claims about the Humanitix actions.                                     *)
(***************************************************************************)
HxListActions == {"get_events", "get_orders", "get_tickets", "get_tags"}

HxItemsKey ==
    CASE action = "get_events" -> "events"
      [] action = "get_orders" -> "orders"
      [] action = "get_tickets" -> "tickets"
      [] action = "get_tags" -> "tags"

HxIdKey ==
    CASE action = "get_events" -> "event_id"
      [] action = "get_orders" -> "order_id"
      [] action = "get_tickets" -> "ticket_id"
      [] action = "get_tags" -> "tag_id"

\* a list action ran in list mode (no id of a single record) and its fetch answered
HxListed ==
    /\ action \in HxListActions
    /\ ~(Has(inputs, HxIdKey) /\ inputs[HxIdKey] # "")
    /\ Len(requests) = 1
    /\ responses[1].kind # "raise"

RequestedPage == IF Has(inputs, "page") THEN inputs["page"] ELSE 1

RequestedPageSize ==
    IF Has(inputs, "page_size") /\ inputs["page_size"] # 0 THEN inputs["page_size"] ELSE 100

\* C3: a paginated list action that receives a bare array returns those items,
\* total = the array's length, page = the requested page (1 when not supplied)
\* and pageSize = the requested page_size or 100.
C3_BareArrayListed ==
    (HxListed /\ responses[1].kind = "array") =>
        /\ outcome.kind = "returned"
        /\ outcome.data[HxItemsKey] = responses[1].items
        /\ outcome.data["total"] = Len(responses[1].items)
        /\ outcome.data["page"] = RequestedPage
        /\ outcome.data["pageSize"] = RequestedPageSize

HxEnveloped ==
    /\ HxListed
    /\ responses[1].kind = "object"
    /\ "statusCode" \notin DOMAIN responses[1].obj

\* C4: a paginated list action that receives an enveloped object takes each of
\* total, page and pageSize from the response when it is there, and otherwise
\* defaults it on its own: total to the number of items returned, page to the
\* requested page (1 when not supplied), pageSize to the requested page_size or 100.
C4_EnvelopeDefaults ==
    HxEnveloped =>
        LET obj == responses[1].obj
            items == IF HxItemsKey \in DOMAIN obj THEN obj[HxItemsKey] ELSE <<>>
        IN  /\ outcome.kind = "returned"
            /\ outcome.data["result"] = TRUE
            /\ outcome.data[HxItemsKey] = items
            /\ outcome.data["total"] =
                   IF "total" \in DOMAIN obj THEN obj["total"] ELSE Len(items)
            /\ outcome.data["page"] =
                   IF "page" \in DOMAIN obj THEN obj["page"] ELSE RequestedPage
            /\ outcome.data["pageSize"] =
                   IF "pageSize" \in DOMAIN obj THEN obj["pageSize"] ELSE RequestedPageSize

\* the case of C4: an envelope with items and a page but neither total nor pageSize,
\* answered to a caller that asked for page 2 with a page_size of 0
C4_Witness ==
    /\ HxEnveloped
    /\ DOMAIN responses[1].obj = {HxItemsKey, "page"}
    /\ Len(responses[1].obj[HxItemsKey]) = MaxItems
    /\ Has(inputs, "page") /\ inputs["page"] = 2
    /\ Has(inputs, "page_size") /\ inputs["page_size"] = 0
    /\ outcome.kind = "returned"
    /\ outcome.data["total"] = MaxItems
    /\ outcome.data["page"] = 3
    /\ outcome.data["pageSize"] = 100

HxScanned ==
    /\ action \in {"check_in", "check_out"}
    /\ Len(requests) = 1
    /\ responses[1].kind = "object"

\* C5: check_in and check_out, given a vendor object without statusCode, return
\* result = true and scanningMessages = the vendor's list, or the empty list when
\* the vendor sent none.
C5_ScanningMessages ==
    (HxScanned /\ "statusCode" \notin DOMAIN responses[1].obj) =>
        /\ outcome.kind = "returned"
        /\ "result" \in DOMAIN outcome.data
        /\ outcome.data["result"] = TRUE
        /\ "scanningMessages" \in DOMAIN outcome.data
        /\ outcome.data["scanningMessages"] =
               IF "scanningMessages" \in DOMAIN responses[1].obj
               THEN responses[1].obj["scanningMessages"] ELSE <<>>

\* C6: every Humanitix action, in every mode, answers a vendor object that has a
\* statusCode with result = false and the vendor's statusCode, error and message.
C6_VendorErrorEnvelope ==
    (/\ action \in HxListActions \cup {"check_in", "check_out"}
     /\ Len(requests) = 1
     /\ responses[1].kind = "object"
     /\ "statusCode" \in DOMAIN responses[1].obj) =>
        LET obj == responses[1].obj
        IN  /\ outcome.kind = "returned"
            /\ "result" \in DOMAIN outcome.data
            /\ outcome.data["result"] = FALSE
            /\ "statusCode" \in DOMAIN outcome.data
            /\ outcome.data["statusCode"] = obj["statusCode"]
            /\ \A k \in {"error", "message"} :
                   k \in DOMAIN obj =>
                       (k \in DOMAIN outcome.data /\ outcome.data[k] = obj[k])

(***************************************************************************)
(* Claims about the Uber actions.                                          *)
(***************************************************************************)
UberCoordinateActions ==
    {"get_products", "get_price_estimate", "get_time_estimate", "get_ride_estimate",
     "request_ride"}

UberSeatActions == {"get_price_estimate", "get_ride_estimate", "request_ride"}

OutOfRange(k, limit) ==
    /\ k \in DOMAIN inputs
    /\ "num" \in DOMAIN inputs[k]
    /\ (inputs[k].num < -limit \/ inputs[k].num > limit)

BadCoordinate ==
    \/ \E k \in {"latitude", "start_latitude", "end_latitude"} : OutOfRange(k, 90)
    \/ \E k \in {"longitude", "start_longitude", "end_longitude"} : OutOfRange(k, 180)

\* C7: an Uber action given a latitude outside [-90, 90] or a longitude outside
\* [-180, 180] returns result = false with error_type validation_error, and
\* performs no fetch.
C7_CoordinatesRejected ==
    (action \in UberCoordinateActions /\ BadCoordinate) =>
        /\ outcome.kind = "returned"
        /\ outcome.data.result = FALSE
        /\ outcome.data.error_type = "validation_error"
        /\ requests = <<>>

\* the case of C7: request_ride whose only fault is an end_longitude of 200
C7_Witness ==
    /\ action = "request_ride"
    /\ DOMAIN inputs = TripKeys \cup {"product_id"}
    /\ inputs["product_id"] = Str(<<" ", "p", "1">>)
    /\ inputs["start_latitude"] = Num(90) /\ inputs["start_longitude"] = Num(180)
    /\ inputs["end_latitude"] = Num(-90) /\ inputs["end_longitude"] = Num(200)
    /\ outcome.kind = "returned"
    /\ outcome.data.result = FALSE
    /\ outcome.data.error_type = "validation_error"
    /\ requests = <<>>

SeatCountSent ==
    IF action = "get_price_estimate"
    THEN requests[1].kwargs["params"]
    ELSE requests[1].kwargs["json"]

Clamped(n) == IF n < 1 THEN 1 ELSE IF n > 2 THEN 2 ELSE n

\* C8: the seat_count in the outbound request of get_price_estimate,
\* get_ride_estimate and request_ride is the integer supplied, clamped to [1, 2].
C8_SeatCountClamped ==
    (/\ action \in UberSeatActions
     /\ "seat_count" \in DOMAIN inputs
     /\ "num" \in DOMAIN inputs["seat_count"]
     /\ requests # <<>>) =>
        /\ "seat_count" \in DOMAIN SeatCountSent
        /\ SeatCountSent["seat_count"] = [num |-> Clamped(inputs["seat_count"].num)]

\* the case of C8: a seat_count of 0 sent as 1 in the body of get_ride_estimate
C8_Witness ==
    /\ action = "get_ride_estimate"
    /\ "seat_count" \in DOMAIN inputs
    /\ inputs["seat_count"] = Num(0)
    /\ Len(requests) = 1
    /\ requests[1].kwargs["json"]["seat_count"] = Num(1)

\* a fetch inside an Uber action raised
UberFetchRaised ==
    /\ action \in UberCoordinateActions
    /\ Len(requests) = 1
    /\ responses[1].kind = "raise"

Says(marker) == InLower(responses[1].err, marker)

SaysAny(markers) == \E m \in markers : Says(m)

AuthMarkers == {"unauthorized"}
RateMarkers == {"too many requests", "rate limit"}
ValidationMarkers == {"validation", "invalid"}
NotFoundMarkers == {"not found"}
AllMarkers == AuthMarkers \cup RateMarkers \cup ValidationMarkers \cup NotFoundMarkers

\* C9 as stated: the error_type of an error raised by fetch is fixed by the HTTP
\* status the error carries, whatever else the message says; an error with no
\* such status and no marker gives api_error.
C9_StatusFixesType ==
    UberFetchRaised =>
        LET status == StatusMatch(responses[1].err)
            type == outcome.data.error_type
        IN  /\ status = 401 => type = "auth_error"
            /\ status = 429 => type = "rate_limited"
            /\ status \in {400, 422} => type = "validation_error"
            /\ status = 404 => type = "not_found"
            /\ status \in 500..599 => type = "server_error"
            /\ (status = 0 /\ ~SaysAny(AllMarkers)) => type = "api_error"

\* C9 as amended: the rules are tried in the order auth_error, rate_limited,
\* validation_error, not_found, server_error, each matching by its status or by
\* its marker words, and the first that matches gives the error_type; so a
\* status fixes the type only when the message has no marker of an earlier rule.
C9_FirstMatchingRule ==
    UberFetchRaised =>
        LET status == StatusMatch(responses[1].err)
            type == outcome.data.error_type
        IN  /\ outcome.data.result = FALSE
            /\ (status = 401 \/ SaysAny(AuthMarkers)) => type = "auth_error"
            /\ ((status = 429 \/ SaysAny(RateMarkers))
                    /\ status # 401 /\ ~SaysAny(AuthMarkers))
                => type = "rate_limited"
            /\ ((status \in {400, 422} \/ SaysAny(ValidationMarkers))
                    /\ status \notin {401, 429} /\ ~SaysAny(AuthMarkers \cup RateMarkers))
                => type = "validation_error"
            /\ ((status = 404 \/ SaysAny(NotFoundMarkers))
                    /\ status \notin {400, 401, 422, 429}
                    /\ ~SaysAny(AuthMarkers \cup RateMarkers \cup ValidationMarkers))
                => type = "not_found"
            /\ (status \in 500..599 /\ ~SaysAny(AllMarkers)) => type = "server_error"
            /\ (status = 0 /\ ~SaysAny(AllMarkers)) => type = "api_error"

\* the case of C9: a 400 whose message says "not found" is a validation_error
C9_Witness ==
    /\ UberFetchRaised
    /\ responses[1].err = <<Code(400), Word("not found")>>
    /\ outcome.data.error_type = "validation_error"

(***************************************************************************)
(* Claims about the rate-limit advisory.                                   *)
(***************************************************************************)
AdvisoryBuilt == action = "create_rate_limit_response" /\ outcome.kind = "returned"

SuppliedAttempt ==
    IF "retry_attempt" \in DOMAIN inputs THEN inputs["retry_attempt"].num ELSE 0

\* C10: in the advisory can_retry is true exactly when retry_attempt < 3, the
\* max_retries given is 3, and retry_attempt and retry_after_seconds are those
\* the caller supplied.
C10_CanRetry ==
    AdvisoryBuilt =>
        /\ outcome.data["can_retry"] = (SuppliedAttempt < 3)
        /\ outcome.data["max_retries"] = 3
        /\ outcome.data["retry_attempt"] = SuppliedAttempt
        /\ outcome.data["retry_after_seconds"] = inputs["retry_after_seconds"].num

\* the case of C10: the third retry, the first that may not be retried, with an
\* empty_data that has keys of the advisory's own
C10_Witness ==
    /\ AdvisoryBuilt
    /\ SuppliedAttempt = 3
    /\ "empty_data" \in DOMAIN inputs
    /\ "retry_attempt" \in DOMAIN inputs["empty_data"]
    /\ outcome.data["can_retry"] = FALSE
    /\ outcome.data["retry_attempt"] = 3

(***************************************************************************)
(* Claims about every action: the envelope, and required inputs.           *)
(***************************************************************************)
Ended == ~Idle

HasBooleanResult(data) ==
    \E k \in {"result", "success"} \cap DOMAIN data : data[k] \in BOOLEAN

FetchRaised == responses # <<>> /\ responses[1].kind = "raise"

CatchingActions == UberCoordinateActions \cup {"run_query"}

RequiredInputs ==
    CASE action \in {"get_orders", "get_tickets"} -> <<{"event_id"}>>
      [] action \in {"check_in", "check_out"} -> <<{"event_id"}, {"ticket_id"}>>
      [] action = "get_products" -> <<{"latitude", "longitude"}>>
      [] action = "get_time_estimate" -> <<{"start_latitude", "start_longitude"}>>
      [] action = "get_price_estimate" ->
            <<{"start_latitude", "start_longitude"}, {"end_latitude", "end_longitude"}>>
      [] action \in {"get_ride_estimate", "request_ride"} ->
            <<{"product_id"}, {"start_latitude", "start_longitude"},
              {"end_latitude", "end_longitude"}>>
      [] action = "run_query" -> <<{"project_id"}, {"query"}>>
      [] action = "get_post_status" -> <<{"publish_id"}>>
      [] OTHER -> <<>>

Missing(group) == group \ DOMAIN inputs # {}

MissingRequired == \E i \in DOMAIN RequiredInputs : Missing(RequiredInputs[i])

Mentions(message, word) ==
    \E i \in DOMAIN message : "w" \in DOMAIN message[i] /\ message[i].w = word

Rejected(group) ==
    /\ ~Missing(group)
    /\ IF group = {"product_id"}
       THEN inputs["product_id"] \in {Str(<<"a", "/", "b">>), Num(7)}
       ELSE \E k \in group : ~IsNum(inputs[k]) \/ OutOfRange(k, 90)
                             \/ (k \in {"longitude", "start_longitude", "end_longitude"}
                                 /\ OutOfRange(k, 180))

\* the first group of required inputs that is missing or rejected is a missing one
MissingComesFirst ==
    \E i \in DOMAIN RequiredInputs :
        /\ Missing(RequiredInputs[i])
        /\ \A j \in 1..(i - 1) : ~Missing(RequiredInputs[j]) /\ ~Rejected(RequiredInputs[j])

C11_DoNotRetryVerbatim ==
    AdvisoryBuilt =>
        (Mentions(outcome.data["retry_instructions"], "do not retry")
            <=> ~outcome.data["can_retry"])

\* C11: the retry_instructions of the exhausted state read "Do not retry", so
\* they contain "do not retry" once lower-cased; those of the retryable state do
\* not contain it in either spelling (so the two texts differ).
C11_DoNotRetryIgnoringCase ==
    AdvisoryBuilt =>
        /\ InLower(outcome.data["retry_instructions"], "do not retry")
              <=> ~outcome.data["can_retry"]
        /\ Mentions(outcome.data["retry_instructions"], "Do not retry")
              <=> ~outcome.data["can_retry"]

\* the case of C11: an advisory built after the retries ran out
C11_Witness ==
    /\ AdvisoryBuilt
    /\ SuppliedAttempt > 3
    /\ ~outcome.data["can_retry"]
    /\ InLower(outcome.data["retry_instructions"], "do not retry")

(***************************************************************************)
(* Claims about an Uber fetch that fails with HTTP 429.                    *)
(***************************************************************************)
\* the fetch of an Uber action raised an error whose HTTP status is 429
UberFetch429 ==
    /\ UberFetchRaised
    /\ \E i \in DOMAIN responses[1].err :
          /\ responses[1].err[i] = Code(429)
          /\ \A j \in 1..(i - 1) :
                ~("n" \in DOMAIN responses[1].err[j] /\ responses[1].err[j].n \in 400..599)

AdvisoryFields ==
    {"retry_after_seconds", "retry_attempt", "max_retries", "can_retry", "retry_instructions"}

SuppliedArns == IF Has(inputs, "finding_arns") THEN inputs["finding_arns"] ELSE <<>>

\* the lookup of update_finding_workflow was answered, and with no finding
LookupMatchedNone ==
    /\ action = "update_finding_workflow"
    /\ Len(responses) >= 1
    /\ responses[1].kind = "object"
    /\ Get(responses[1].obj, "Findings", <<>>) = <<>>

\* C13: when the lookup of update_finding_workflow matches none of the supplied
\* ARNs, the result is true, processed_findings is empty, unprocessed_findings
\* holds one FindingNotFound entry per supplied ARN in order, and only the
\* lookup was called: batch_update_findings is not.
C13_NoMatchReported ==
    LookupMatchedNone =>
        /\ outcome.kind = "returned"
        /\ outcome.data["result"] = TRUE
        /\ outcome.data["processed_findings"] = <<>>
        /\ Len(outcome.data["unprocessed_findings"]) = Len(SuppliedArns)
        /\ \A i \in DOMAIN SuppliedArns :
              /\ outcome.data["unprocessed_findings"][i]["FindingIdentifier"]["Id"]
                     = SuppliedArns[i]
              /\ outcome.data["unprocessed_findings"][i]["ErrorCode"] = "FindingNotFound"
        /\ Len(requests) = 1
        /\ requests[1].op = "get_findings"

\* two ARNs, one of them twice or not, and a lookup that found neither
C13_Witness ==
    /\ LookupMatchedNone
    /\ Len(SuppliedArns) = 2
    /\ outcome.kind = "returned"
    /\ Len(outcome.data["unprocessed_findings"]) = 2

BatchActions == {"update_finding_workflow", "archive_findings"}

SuppliedIdentifiers ==
    IF action = "update_finding_workflow" /\ Has(inputs, "finding_arns")
    THEN {inputs["finding_arns"][i] : i \in DOMAIN inputs["finding_arns"]}
    ELSE IF action = "archive_findings" /\ Has(inputs, "finding_ids")
    THEN {inputs["finding_ids"][i] : i \in DOMAIN inputs["finding_ids"]}
    ELSE {}

\* the identifiers the output lists as processed, and as unprocessed
ProcessedIds ==
    LET listed == Get(outcome.data, "processed_findings", <<>>)
    IN  {listed[i]["Id"] : i \in DOMAIN listed}

UnprocessedIds ==
    LET listed == Get(outcome.data, "unprocessed_findings", <<>>)
    IN  {listed[i]["FindingIdentifier"]["Id"] : i \in DOMAIN listed}

BatchSucceeded ==
    /\ action \in BatchActions
    /\ outcome.kind = "returned"
    /\ outcome.data["result"] = TRUE

\* C14: in the success output of update_finding_workflow and archive_findings
\* every identifier of the input is listed, as processed or as unprocessed.
C14_EveryIdentifierAccounted ==
    BatchSucceeded => SuppliedIdentifiers \subseteq ProcessedIds \cup UnprocessedIds

(***************************************************************************)
(* Claims about the actions that enrich a primary fetch with secondary      *)
(* ones.                                                                   *)
(***************************************************************************)
PrimarySucceeded ==
    /\ action \in {"get_insights", "excel_get_workbook"}
    /\ Len(responses) >= 1
    /\ responses[1].kind = "object"

FoundInsights == Get(responses[1].obj, "Insights", <<>>)

\* the position among the secondary calls of the call for the i-th insight
SecondaryOf(i) == Cardinality({j \in 1..i : Has(FoundInsights[j], "InsightArn")})

\* get_insights: one secondary call per insight, and each insight's results are
\* null when its call raised and the InsightResults of its own call otherwise
InsightsDegrade ==
    /\ Len(outcome.data["insights"]) = Len(FoundInsights)
    /\ Len(requests) = 1 + SecondaryOf(Len(FoundInsights))
    /\ Len(responses) = Len(requests)
    /\ \A i \in DOMAIN FoundInsights :
          Has(FoundInsights[i], "InsightArn") =>
              /\ requests[1 + SecondaryOf(i)] =
                     [op |-> "get_insight_results",
                      kwargs |-> [InsightArn |-> FoundInsights[i]["InsightArn"]]]
              /\ outcome.data["insights"][i]["results"] =
                     IF responses[1 + SecondaryOf(i)].kind = "raise" THEN None
                     ELSE Get(responses[1 + SecondaryOf(i)].obj, "InsightResults", EmptyMap)

SecondaryFields == <<"worksheets", "tables", "named_ranges">>

\* excel_get_workbook: the three secondary fetches are all made, and each list is
\* empty when its fetch raised and has an entry per element of its own "value"
\* otherwise
WorkbookDegrades ==
    /\ Len(requests) = 4
    /\ Len(responses) = 4
    /\ \A j \in 1..3 :
          Len(outcome.data[SecondaryFields[j]]) =
              IF responses[j + 1].kind = "raise" THEN 0
              ELSE Len(Get(responses[j + 1].obj, "value", <<>>))
    /\ \A j \in 1..3 : \A i \in DOMAIN outcome.data[SecondaryFields[j]] :
          \A k \in DOMAIN responses[j + 1].obj["value"][i] :
              outcome.data[SecondaryFields[j]][i][k] = responses[j + 1].obj["value"][i][k]

\* C15: when the primary fetch of get_insights or excel_get_workbook succeeds,
\* the action returns result=true whichever secondary fetches raise; a failed
\* secondary leaves its default (null results, empty list), the others keep
\* their own payload, and every secondary fetch is attempted.
C15_SecondaryFailuresDegrade ==
    PrimarySucceeded =>
        /\ outcome.kind = "returned"
        /\ outcome.data["result"] = TRUE
        /\ action = "get_insights" => InsightsDegrade
        /\ action = "excel_get_workbook" => WorkbookDegrades

\* a failed secondary followed by one that succeeded with a payload
C15_Witness ==
    /\ PrimarySucceeded
    /\ Len(responses) >= 3
    /\ responses[2].kind = "raise"
    /\ responses[3].kind = "object"
    /\ \/ /\ action = "get_insights"
          /\ Has(responses[3].obj, "InsightResults")
          /\ outcome.data["insights"][1]["results"] = None
          /\ outcome.data["insights"][2]["results"] # None
       \/ /\ action = "excel_get_workbook"
          /\ outcome.data["worksheets"] = <<>>
          /\ Len(outcome.data["tables"]) = MaxItems

(***************************************************************************)
(* Claims about the chunked upload.                                        *)
(***************************************************************************)
UploadActions == {"create_video_post", "upload_video_draft"}

\* the k-th request of an upload is a chunk when k > 1: the first is the init
ChunkRequests == {k \in DOMAIN requests : k > 1}

ChunkAccepted(k) == responses[k].kind = "status" /\ responses[k].status \in {200, 201, 206}

\* the first byte, the last byte and the size of the video in the Content-Range
\* of the k-th request
RangeStart(k) == requests[k].headers["Content-Range"][2].n
RangeEnd(k) == requests[k].headers["Content-Range"][4].n
RangeTotal(k) == requests[k].headers["Content-Range"][6].n

\* C16: the chunks of create_video_post and upload_video_draft go out in
\* increasing index order, each starting where the accepted previous one ended;
\* a chunk that is not answered with 200, 201 or 206 is the last request of the
\* invocation, which then does not return a result.
C16_ChunksInOrderUntilFailure ==
    action \in UploadActions =>
        /\ \A k \in ChunkRequests :
              /\ requests[k].method = "PUT"
              /\ RangeStart(k) = IF k = 2 THEN 0 ELSE RangeEnd(k - 1) + 1
              /\ k > 2 => ChunkAccepted(k - 1)
              /\ ~ChunkAccepted(k) => k = Len(requests) /\ outcome.kind = "raised"
        /\ outcome.kind = "returned" =>
              /\ ChunkRequests # {}
              /\ RangeEnd(Len(requests)) + 1 = RangeTotal(Len(requests))

\* a video of three chunks whose second chunk is refused
C16_Witness ==
    /\ action \in UploadActions
    /\ Len(requests) = 3
    /\ RangeTotal(2) > 2 * (RangeEnd(2) + 1)
    /\ ChunkAccepted(2)
    /\ responses[3].kind = "status"
    /\ responses[3].status = 500
    /\ outcome.kind = "raised"

(***************************************************************************)
(* Claims about retrying.                                                  *)
(***************************************************************************)
\* the i-th request of the invocation failed: it raised, or its chunk was refused
RequestFailed(i) ==
    /\ i \in DOMAIN responses
    /\ \/ responses[i].kind = "raise"
       \/ responses[i].kind = "status" /\ responses[i].status \notin {200, 201, 206}

\* the actions that make one request at most, or stop at the first that fails
StoppingActions ==
    {"get_events", "get_orders", "get_tickets", "get_tags", "check_in", "check_out",
     "get_products", "get_price_estimate", "get_time_estimate", "get_ride_estimate",
     "request_ride", "run_query", "get_post_status", "update_finding_workflow",
     "archive_findings", "create_video_post", "upload_video_draft"}

\* C17: within one invocation a request that failed is not issued again: no
\* later request of the invocation equals it, and the actions that end with the
\* failure make no request at all after it.
C17_FailedRequestNotResent ==
    \A i \in DOMAIN requests :
        RequestFailed(i) =>
            /\ \A j \in DOMAIN requests : j > i => requests[j] # requests[i]
            /\ action \in StoppingActions =>
                  /\ i = Len(requests)
                  /\ \/ outcome.kind = "raised"
                     \/ outcome.kind = "returned" /\ outcome.data["result"] = FALSE

\* a request failed and others were made after it
C17_Witness ==
    /\ action = "excel_format_range"
    /\ Len(requests) >= 3
    /\ RequestFailed(1)
    /\ outcome.kind = "returned"
    /\ outcome.data["result"] = FALSE

(***************************************************************************)
(* Claims about pagination.                                                *)
(***************************************************************************)
Listed1 == action \in DOMAIN Paging /\ requests # <<>>

\* the token the caller supplied, the token the request carries, the token of the
\* vendor response: "" when there is none
SuppliedToken == Get(inputs, Paging[action].input, "")

SentToken ==
    Get(IF "kwargs" \in DOMAIN requests[1] THEN requests[1].kwargs ELSE requests[1].params,
        Paging[action].sent, "")

ReceivedToken == Get(responses[1].obj, Paging[action].received, "")

ListedPage ==
    /\ Listed1
    /\ outcome.kind = "returned"
    /\ outcome.data["result"] = TRUE

\* the request carries the supplied token and no other; the output carries the
\* token of the response, and none (no key, or null) when the response has none
TokensPassThrough ==
    /\ Listed1 => SentToken = SuppliedToken
    /\ ListedPage =>
          IF ReceivedToken # ""
          THEN /\ Has(outcome.data, Paging[action].output)
               /\ outcome.data[Paging[action].output] = ReceivedToken
          ELSE \/ ~Has(outcome.data, Paging[action].output)
               \/ outcome.data[Paging[action].output] = None

\* a step in which the caller goes on to the next page
NextPageAsked == outcome.kind # "none" /\ outcome'.kind # "none"

\* C18: the list and query actions of AWS and BigQuery pass the supplied token
\* unchanged to the vendor and return the token of the vendor response, none
\* when the response has none; so when the caller asks for the next page with
\* the token of an output, the vendor is asked with the token it gave.
C18_TokensThreaded ==
    /\ []TokensPassThrough
    /\ [][NextPageAsked => SentToken' = ReceivedToken]_vars

\* a page asked for with one token and answered with the next
C18_Witness ==
    /\ ListedPage
    /\ SuppliedToken = "token-1"
    /\ SentToken = "token-1"
    /\ ReceivedToken = "token-2"
    /\ outcome.data[Paging[action].output] = "token-2"

(***************************************************************************)
(* Claims about optional inputs.                                           *)
(***************************************************************************)
\* the optional inputs of an action: the name of the input, the name it is sent
\* under, and the values that count as not supplied
Optionals ==
    [a \in {"request_ride", "update_bitlink", "list_datasets", "get_query_results"} |->
        CASE a = "request_ride" ->
                 <<[input |-> "fare_id", sent |-> "fare_id", empties |-> {None, Str(<<>>)}],
                   [input |-> "seat_count", sent |-> "seat_count", empties |-> {None}]>>
          [] a = "update_bitlink" ->
                 <<[input |-> "title", sent |-> "title", empties |-> {""}],
                   [input |-> "tags", sent |-> "tags", empties |-> {<<>>}]>>
          [] a = "list_datasets" ->
                 <<[input |-> "page_token", sent |-> "pageToken", empties |-> {""}],
                   [input |-> "filter", sent |-> "filter", empties |-> {""}],
                   [input |-> "max_results", sent |-> "maxResults", empties |-> {0}]>>
          [] a = "get_query_results" ->
                 <<[input |-> "page_token", sent |-> "pageToken", empties |-> {""}],
                   [input |-> "max_results", sent |-> "maxResults", empties |-> {0}]>>]

\* the query parameters or the JSON body the request of the action carries
SentFields ==
    CASE action = "request_ride" -> Get(requests[1].kwargs, "json", EmptyMap)
      [] action = "update_bitlink" -> requests[1].json
      [] OTHER -> requests[1].params

\* an empty dict passed as the parameters or the body of the i-th request
EmptyPlaceholder(i) ==
    \/ "json" \in DOMAIN requests[i] /\ requests[i].json = EmptyMap
    \/ "params" \in DOMAIN requests[i] /\ requests[i].params = EmptyMap
    \/ /\ "kwargs" \in DOMAIN requests[i]
       /\ \E k \in DOMAIN requests[i].kwargs \cap {"json", "params"} :
              requests[i].kwargs[k] = EmptyMap

\* C19: an optional input that is not supplied, or is supplied empty, is in
\* neither the query parameters nor the JSON body of the request, and no request
\* carries an empty parameter set or an empty body.
C19_OptionalInputsOmitted ==
    /\ \A i \in DOMAIN requests : ~EmptyPlaceholder(i)
    /\ (action \in DOMAIN Optionals /\ requests # <<>>) =>
          \A n \in DOMAIN Optionals[action] :
              LET o == Optionals[action][n]
              IN  (~Has(inputs, o.input) \/ inputs[o.input] \in o.empties)
                      => ~Has(SentFields, o.sent)

(***************************************************************************)
(* Claims about the fields of a success output.                            *)
(***************************************************************************)
\* the typed fields of the output of an action
TypedFields ==
    [a \in {"get_user_info", "request_ride"} |->
        IF a = "get_user_info"
        THEN {ALL_USER_INFO_FIELDS[i] : i \in DOMAIN ALL_USER_INFO_FIELDS}
        ELSE {"request_id", "status"}]

Succeeded ==
    /\ action \in DOMAIN TypedFields
    /\ outcome.kind = "returned"
    /\ \/ action = "get_user_info"
       \/ outcome.data["result"] = TRUE

\* C20: in a success output every declared field is present and none of the
\* typed fields is null, whether the vendor omitted the field or sent null.
C20_FieldsPresentNeverNull ==
    Succeeded =>
        \A k \in TypedFields[action] :
            /\ Has(outcome.data, k)
            /\ ~IsNone(outcome.data[k])

(***************************************************************************)
(* Claims about identifiers embedded in a request path.                    *)
(***************************************************************************)
RideActions == {"get_ride_status", "get_ride_map", "cancel_ride", "get_ride_receipt"}

DangerousPieces == {<<"/">>, <<"\\">>, <<".", ".">>, <<"?">>, <<"&">>, <<"#">>, <<"%">>}

Dangerous(chars) == \E piece \in DangerousPieces : Contains(chars, piece)

SuppliedRideId == Input(inputs, "request_id")

\* the part of a request's path that comes from the identifier
PathSuffix == IF action = "get_ride_map" THEN <<"/map">>
              ELSE IF action = "get_ride_receipt" THEN <<"/receipt">>
              ELSE <<>>

IdentifierPart(req) == SubSeq(req.url[2], 2, Len(req.url[2]) - Len(PathSuffix))

\* C21: a ride identifier holding '/', '\', '..', '?', '&', '#' or '%' is
\* rejected with validation_error before any fetch, and the identifier part of
\* every URL passed to fetch is free of those characters.
C21_DangerousIdentifiersRejected ==
    (action \in RideActions /\ outcome.kind # "none") =>
        /\ (IsStr(SuppliedRideId) /\ Dangerous(SuppliedRideId.str)) =>
               /\ requests = <<>>
               /\ outcome.kind = "returned"
               /\ outcome.data["result"] = FALSE
               /\ outcome.data["error_type"] = "validation_error"
        /\ \A i \in DOMAIN requests :
               /\ requests[i].url[2] =
                      RidePath(IdentifierPart(requests[i]), PathSuffix)
               /\ IdentifierPart(requests[i]) = Strip(SuppliedRideId.str)
               /\ ~Dangerous(IdentifierPart(requests[i]))

C21_Witness ==
    /\ action = "get_ride_map"
    /\ outcome.kind = "returned"
    /\ IsStr(SuppliedRideId)
    /\ Contains(SuppliedRideId.str, <<"%">>)
    /\ requests = <<>>
    /\ outcome.data["error_type"] = "validation_error"

(***************************************************************************)
(* Claims about repeated invocations.                                      *)
(***************************************************************************)
\* a step in which a read-only action that has ended is invoked once more with
\* the same inputs against the same vendor answer
SameCallAgain ==
    /\ action \in ReadActions
    /\ outcome.kind # "none"
    /\ action' = action
    /\ inputs' = inputs
    /\ responses' = responses

SendActions == {"send_message", "send_template_message", "send_media_message"}

\* '+', a digit 1-9, then 1 to 14 further digits and nothing else
IsE164(phone) ==
    /\ Len(phone) \in 3..16
    /\ phone[1] = "+"
    /\ phone[2] \in {"1", "2", "3", "4", "5", "6", "7", "8", "9"}
    /\ \A i \in 3..Len(phone) :
           phone[i] \in {"0", "1", "2", "3", "4", "5", "6", "7", "8", "9"}

\* a send action that read all its required inputs and has ended
Sending ==
    /\ action \in SendActions
    /\ outcome.kind = "returned"

RejectedWith(phrase) ==
    /\ requests = <<>>
    /\ outcome.data["success"] = FALSE
    /\ outcome.data["message_id"] = ""
    /\ Head(outcome.data["error"]) = phrase

\* C23: a recipient that is not in E.164 format is refused with "Invalid phone
\* number format", an empty message_id and no fetch; send_media_message refuses
\* a media_url that does not start with "https://" with "Invalid media URL".
C23_RecipientAndUrlValidated ==
    Sending =>
        /\ ~IsE164(inputs["to"]) => RejectedWith("Invalid phone number format")
        /\ (/\ action = "send_media_message"
            /\ IsE164(inputs["to"])
            /\ ~(inputs["media_url"] # <<>> /\ Head(inputs["media_url"]) = "https://"))
               => RejectedWith("Invalid media URL")

(***************************************************************************)
(* Claims about the chunk size of an upload.                               *)
(***************************************************************************)
ChunkSizeValidated == action = "_validate_chunk_size" /\ outcome.kind = "returned"

\* C24: _validate_chunk_size returns the video size for a video smaller than
\* 5 MB and otherwise the requested chunk size clamped to [5 MB, 64 MB]; for a
\* non-empty video the result is at least 1.
C24_ChunkSizeClamped ==
    ChunkSizeValidated =>
        LET requested == inputs["chunk_size"]
            video_size == inputs["video_size"]
            result == outcome.data["chunk_size"]
        IN  /\ video_size < 5 * 1024 * 1024 => result = video_size
            /\ video_size >= 5 * 1024 * 1024 =>
                   /\ requested < 5 * 1024 * 1024 => result = 5 * 1024 * 1024
                   /\ requested > 64 * 1024 * 1024 => result = 64 * 1024 * 1024
                   /\ requested \in (5 * 1024 * 1024)..(64 * 1024 * 1024) =>
                          result = requested
            /\ video_size >= 1 => result >= 1

C24_Witness ==
    /\ ChunkSizeValidated
    /\ inputs["video_size"] > MAX_CHUNK_SIZE
    /\ inputs["chunk_size"] = 1024
    /\ outcome.data["chunk_size"] = MIN_CHUNK_SIZE

(***************************************************************************)
(* Claims about the error check of a TikTok response.                      *)
(***************************************************************************)
ResponseChecked == action = "_check_api_response" /\ outcome.kind # "none"

HasErrorCode == Has(inputs, "error_code") /\ inputs["error_code"] # ""

HasErrorObject == Has(inputs, "error") /\ ~IsText(inputs["error"])

ErrorObjectCode == Get(inputs["error"], "code", "")

ReturnsData == outcome = Returned(Get(inputs, "data", inputs))

RaisesWithCode(code) ==
    /\ outcome.kind = "raised"
    /\ outcome.exc.type = "TikTokAPIError"
    /\ outcome.exc.error_code = code

\* a top-level message that says success, with no other sign of an error
OnlySaysSuccess ==
    /\ ~HasErrorCode
    /\ ~Has(inputs, "error")
    /\ Has(inputs, "message")
    /\ inputs["message"] \in {"success", "Success", "ok", "OK"}

\* C25 as stated: data is returned whenever the error object has code "ok".
C25_OkAlwaysReturns ==
    (ResponseChecked /\ HasErrorObject /\ ErrorObjectCode = "ok") => ReturnsData

\* C25: _check_api_response returns the response's data when the error object
\* has code "ok" and there is no non-empty error_code; it raises TikTokAPIError
\* with the vendor's code for a non-empty error_code and for an error object
\* whose code is not "ok"; a top-level message of "success" or "ok" is no error.
C25_CheckedByCode ==
    ResponseChecked =>
        /\ (~HasErrorCode /\ HasErrorObject /\ ErrorObjectCode = "ok") => ReturnsData
        /\ HasErrorCode => RaisesWithCode(inputs["error_code"])
        /\ (~HasErrorCode /\ HasErrorObject /\ ErrorObjectCode \notin {"ok", ""}) =>
               RaisesWithCode(ErrorObjectCode)
        /\ OnlySaysSuccess => ReturnsData

C25_Witness ==
    /\ ResponseChecked
    /\ HasErrorCode
    /\ HasErrorObject
    /\ ErrorObjectCode = "ok"
    /\ RaisesWithCode("40001")

(***************************************************************************)
(* Claims about the unpacking of query rows.                               *)
(***************************************************************************)
RowsParsed == action = "parse_rows" /\ outcome.kind # "none"

SchemaFields(schema) == Get(schema, "fields", <<>>)

\* the key of the i-th field of a schema
KeyOf(fields, i) ==
    IF Has(fields[i], "name") THEN fields[i]["name"] ELSE "field_" \o ToString(i - 1)

IsRecordField(field) == Get(field, "type", "") = "RECORD"
IsRepeatedField(field) == Get(field, "mode", "") = "REPEATED"

\* the cells of a row have the shapes that the fields declare
RECURSIVE WellShaped(_, _)
WellShaped(fields, cells) ==
    \A i \in DOMAIN fields \cap DOMAIN cells :
        LET value == Get(cells[i], "v", None)
        IN  IF ~Truth(value) THEN TRUE
            ELSE IF IsRecordField(fields[i]) /\ IsRepeatedField(fields[i])
            THEN /\ IsList(value)
                 /\ \A k \in DOMAIN value.list :
                        Truth(Get(value.list[k], "v", None)) =>
                            /\ IsObject(value.list[k]["v"])
                            /\ WellShaped(SchemaFields(fields[i]),
                                          Get(value.list[k]["v"], "f", <<>>))
            ELSE IF IsRecordField(fields[i])
            THEN /\ IsObject(value)
                 /\ WellShaped(SchemaFields(fields[i]), Get(value, "f", <<>>))
            ELSE IsRepeatedField(fields[i]) => IsList(value)

\* mapping is the unpacking of the cells of a row against the fields
RECURSIVE Unpacked(_, _, _)
Unpacked(fields, cells, mapping) ==
    /\ DOMAIN mapping = {KeyOf(fields, i) : i \in DOMAIN fields}
    /\ Cardinality(DOMAIN mapping) = Len(fields)
    /\ \A i \in DOMAIN fields :
        LET result == mapping[KeyOf(fields, i)]
            value == Get(cells[i], "v", None)
        IN  IF i > Len(cells) THEN IsNone(result)
            ELSE IF ~Truth(value) THEN result = value
            ELSE IF IsRecordField(fields[i]) /\ IsRepeatedField(fields[i])
            THEN /\ IsList(result)
                 /\ Len(result.list) = Len(value.list)
                 /\ \A k \in DOMAIN value.list :
                        IF Truth(Get(value.list[k], "v", None))
                        THEN Unpacked(SchemaFields(fields[i]),
                                      Get(value.list[k]["v"], "f", <<>>), result.list[k])
                        ELSE IsNone(result.list[k])
            ELSE IF IsRecordField(fields[i])
            THEN Unpacked(SchemaFields(fields[i]), Get(value, "f", <<>>), result)
            ELSE IF IsRepeatedField(fields[i])
            THEN /\ IsList(result)
                 /\ Len(result.list) = Len(value.list)
                 /\ \A k \in DOMAIN value.list :
                        result.list[k] = Get(value.list[k], "v", None)
            ELSE result = value

\* C26 as stated: one mapping per input row, for every schema.
C26_OneMappingPerRow ==
    (RowsParsed /\ outcome.kind = "returned") =>
        Len(outcome.data) = Len(inputs["rows"])

\* C26: for a non-empty schema and well-shaped rows, parse_rows returns one
\* mapping per row with one key per field, null where the row is short, RECORD
\* fields unpacked recursively and REPEATED fields as lists with one element per
\* vendor element; for an empty schema it returns no rows.
C26_RowsUnpacked ==
    RowsParsed =>
        LET schema == inputs["schema"]
            rows == inputs["rows"]
        IN  /\ (schema = EmptyMap \/ rows = <<>>) => outcome = Returned(<<>>)
            /\ (/\ schema # EmptyMap
                /\ \A r \in DOMAIN rows :
                       WellShaped(SchemaFields(schema), Get(rows[r], "f", <<>>))) =>
                   /\ outcome.kind = "returned"
                   /\ Len(outcome.data) = Len(rows)
                   /\ \A r \in DOMAIN rows :
                          Unpacked(SchemaFields(schema), Get(rows[r], "f", <<>>),
                                   outcome.data[r])

C26_Witness ==
    /\ RowsParsed
    /\ outcome.kind = "returned"
    /\ Len(outcome.data) = MaxItems
    /\ Has(outcome.data[1], "o")
    /\ ~IsNone(outcome.data[1]["o"])
    /\ outcome.data[1]["o"]["r"]["xs"] = List(<<Str(<<"a">>)>>)
    /\ IsNone(outcome.data[1]["o"]["s"])
    /\ outcome.data[MaxItems] = [o |-> None]

(***************************************************************************)
(* Claims about the byte ranges of an upload.                              *)
(***************************************************************************)
\* the source_info of the init request of an upload
Declared == requests[1].json["source_info"]

ChunkLength(k) == requests[k].headers["Content-Length"][1].n

\* C27: the byte ranges of the chunks sent are contiguous from byte 0, none is
\* empty or longer than the chunk size, none reaches past the last byte of the
\* video, and an upload that succeeds has sent total_chunk_count chunks, the
\* ceiling of video_size / chunk_size, which end at the last byte.
C27_RangesCoverVideo ==
    (action \in UploadActions /\ requests # <<>>) =>
        /\ Declared.chunk_size >= 1
        /\ Declared.total_chunk_count * Declared.chunk_size >= Declared.video_size
        /\ (Declared.total_chunk_count - 1) * Declared.chunk_size < Declared.video_size
        /\ Len(requests) - 1 <= Declared.total_chunk_count
        /\ \A k \in ChunkRequests :
              /\ RangeStart(k) = IF k = 2 THEN 0 ELSE RangeEnd(k - 1) + 1
              /\ RangeEnd(k) >= RangeStart(k)
              /\ RangeEnd(k) - RangeStart(k) + 1 <= Declared.chunk_size
              /\ RangeEnd(k) <= Declared.video_size - 1
              /\ RangeTotal(k) = Declared.video_size
              /\ ChunkLength(k) = RangeEnd(k) - RangeStart(k) + 1
              /\ requests[k].data = [start |-> RangeStart(k), end |-> RangeEnd(k) + 1]
        /\ outcome.kind = "returned" =>
              /\ Len(requests) - 1 = Declared.total_chunk_count
              /\ RangeEnd(Len(requests)) = Declared.video_size - 1

\* an upload of a video of MaxChunks full chunks, and nothing more
C27_Witness ==
    /\ action \in UploadActions
    /\ outcome.kind = "returned"
    /\ Len(requests) = MaxChunks + 1
    /\ Declared.video_size = MaxChunks * Declared.chunk_size
    /\ Declared.total_chunk_count = MaxChunks

(***************************************************************************)
(* Claims about a caller that follows the advisory.                        *)
(***************************************************************************)
\* the advisory of the last call lets the caller retry
MayRetry == AdvisoryBuilt /\ outcome.data["can_retry"] = TRUE

\* the calls made so far: the first, and one for each retry_attempt counted
AttemptsBounded ==
    AdvisoryBuilt =>
        /\ outcome.data["retry_attempt"] \in 0..outcome.data["max_retries"]
        /\ outcome.data["retry_attempt"] + 1 <= outcome.data["max_retries"] + 1
        /\ outcome.data["retry_attempt"] = outcome.data["max_retries"] =>
               outcome.data["can_retry"] = FALSE

\* C28: a caller that starts at retry_attempt 0 and calls again with
\* retry_attempt + 1 only while can_retry is true never gets past retry_attempt
\* max_retries, where can_retry is false, and always gets there: the sequence of
\* retries ends, every call being rate limited.
C28_RetriesTerminate == []AttemptsBounded /\ [](MayRetry => <>(~MayRetry))

C28_Witness ==
    /\ AdvisoryBuilt
    /\ inputs["retry_after_seconds"] = Num(1)
    /\ SuppliedAttempt = MAX_RATE_LIMIT_RETRIES
    /\ outcome.data["retry_attempt"] = outcome.data["max_retries"]
    /\ outcome.data["can_retry"] = FALSE

(***************************************************************************)
(* Claims about the rows of a table.                                       *)
(***************************************************************************)
\* excel_get_table_data returned the rows of the columns it was asked to select
ColumnsSelected ==
    /\ action = "excel_get_table_data"
    /\ Has(inputs, "select_columns")
    /\ inputs["select_columns"] # <<>>
    /\ outcome.kind = "returned"
    /\ outcome.data["result"] = TRUE

SourceHeaders == responses[1].obj["values"][1]

SourceRows == Get(responses[2].obj, "values", <<>>)

\* the source rows that skip and top leave
FirstKept == IF Has(inputs, "skip") /\ inputs["skip"] > 0 THEN inputs["skip"] ELSE 0

KeptCount ==
    LET left == IF Len(SourceRows) > FirstKept THEN Len(SourceRows) - FirstKept ELSE 0
    IN  IF Has(inputs, "top") /\ inputs["top"] < left THEN inputs["top"] ELSE left

HeaderPosition(column) == CHOOSE i \in DOMAIN SourceHeaders : SourceHeaders[i] = column

\* C29: with select_columns, each returned row object holds, for each selected
\* column, the value at that column's header position in its source row, null
\* when the source row is shorter; skip and top remove whole rows only and
\* total_rows counts all source rows.
C29_SelectedByHeaderPosition ==
    ColumnsSelected =>
        /\ outcome.data["total_rows"] = Len(SourceRows)
        /\ Len(outcome.data["rows"]) = KeptCount
        /\ \A r \in DOMAIN outcome.data["rows"] :
              LET source == SourceRows[FirstKept + r]
                  columns == inputs["select_columns"]
              IN  /\ DOMAIN outcome.data["rows"][r] = {columns[k] : k \in DOMAIN columns}
                  /\ \A k \in DOMAIN columns :
                        outcome.data["rows"][r][columns[k]] =
                            IF HeaderPosition(columns[k]) <= Len(source)
                            THEN source[HeaderPosition(columns[k])]
                            ELSE None

(***************************************************************************)
(* Claims about the normal form of a bitlink.                              *)
(***************************************************************************)
\* normalize_bitlink returned a bitlink
Normalized == action = "normalize_bitlink" /\ outcome.kind = "returned"

\* get_bitlink asked for a bitlink
BitlinkRequested == action = "get_bitlink" /\ requests # <<>>

\* what the request path holds after the base URL and "/bitlinks/"
RequestedBitlink == SubSeq(requests[1].url, 3, Len(requests[1].url))

\* C30: normalize_bitlink is idempotent: normalizing what it returned gives it
\* back unchanged, for a full URL with or without a path, a domain/path and a
\* bare hash, so the identifier encoded into the request path of get_bitlink is
\* the same when the bitlink is normalized once more.
C30_NormalizeIdempotent ==
    /\ Normalized => normalize_bitlink(outcome.data["bitlink"]) = outcome.data["bitlink"]
    /\ BitlinkRequested =>
          encode_bitlink_for_url(normalize_bitlink(normalize_bitlink(inputs["bitlink"])))
              = RequestedBitlink

====
